---- MODULE Spec2Model ----
(***************************************************************************)
(* HubSpot list/campaign orchestration pipeline of routes/hubspotRoute.js. *)
(*                                                                         *)
(* Every action is one stretch of JavaScript between two awaits: the       *)
(* answer of a remote call is the input of the action (drawn with \E),     *)
(* and the action runs the code up to the next remote call.  Sleeps        *)
(* (setTimeout) are recorded in the frame that takes them.                 *)
(***************************************************************************)
EXTENDS Integers, Sequences, FiniteSets, TLC

VARIABLES
  MAX_RETRIES,    \* hubspotRoute.js:21, read from the environment at load
  pc,             \* the await the program is suspended at
  rd,             \* frame of getContactsFromList
  wr,             \* frame of addContactsToList
  cp,             \* frame of processSingleCampaign
  run,            \* frame of processCampaignsWithDelay
  usedContacts,   \* the Set created by processCampaignsWithDelay
  createdLists,   \* documents written by CreatedList.create
  vf,             \* frame of verifyListIsManual called on its own
  up,             \* frame of updateContactProperties
  rt,             \* frame of the POST /create-lists handler
  cr,             \* frame of createHubSpotList and getLegacySegmentId
  inv,            \* the invocations of processCampaignsWithDelay side by side
  cl,             \* dataRetention.js: scheduler state, timers and the clock
  lg,             \* frame of the POST /login handler and the login-activity store
  em,             \* frame of the POST /include-list-in-email handler and the email
  fx              \* frame of the POST /fix-all-legacy-ids handler and the stored lists

\* the state of the list pipeline of routes/hubspotRoute.js
pipelineVars == <<MAX_RETRIES, pc, rd, wr, cp, run, usedContacts, createdLists, vf, up,
                  rt, cr, inv>>

vars == <<MAX_RETRIES, pc, rd, wr, cp, run, usedContacts, createdLists, vf, up,
          rt, cr, inv, cl, lg, em, fx>>

----------------------------------------------------------------------------
(* Bounds of the model *)

MaxCeiling   == 5     \* largest HUBSPOT_MAX_RETRIES of the direct calls
RunCeiling   == 2     \* largest HUBSPOT_MAX_RETRIES of the campaign runs
MaxPageLen   == 2     \* most records in one membership page
MaxPages     == 1     \* most pages of one read that carry a continuation cursor
MaxCount     == 3     \* largest finite maxCount of a direct read
MaxRequested == 2     \* largest config.count
MaxCampaigns == 2     \* most configs in one run
MaxRuns      == 2     \* most invocations of processCampaignsWithDelay in progress at once
MaxInvocations == 2   \* most invocations that follow each other in one slot
MaxDays      == 2     \* calendar days the clock of the scheduler runs through
MaxTimers    == 2     \* most start-up timers pending at once
MaxLogins    == 3     \* most login requests in one behaviour
MaxLists     == 2     \* most CreatedList documents the fixer finds
MaxFixRuns   == 2     \* most runs of the fixer in one behaviour

----------------------------------------------------------------------------
(* Values *)

Infinity == 1000000000   \* stands for the default maxCount = Infinity

NoCursor == 0            \* paging.next.after absent (falsy)
Null     == "null"

\* recordId strings of the membership endpoint, as digit sequences
RecordIds == { <<1>>, <<0, 1>>, <<2>> }

Min(a, b) == IF a <= b THEN a ELSE b
Max(a, b) == IF a >= b THEN a ELSE b

RECURSIVE Pow2(_)
Pow2(n) == IF n <= 0 THEN 1 ELSE 2 * Pow2(n - 1)

Range(s) == { s[i] : i \in 1..Len(s) }

\* contact counts handed to a direct addContactsToList
AddSizes == { 0, 2, 301, 650 }

SeqsUpTo(S, n) == UNION { [1..k -> S] : k \in 0..n }

\* arr.slice(0, n) for n >= 0
Slice(arr, n) == SubSeq(arr, 1, Min(n, Len(arr)))

\* parseInt(record.recordId): decimal value of the digit string
RECURSIVE parseInt(_)
parseInt(s) ==
  IF Len(s) = 0 THEN 0
  ELSE 10 * parseInt(SubSeq(s, 1, Len(s) - 1)) + s[Len(s)]

\* results.map(record => parseInt(record.recordId))
newContactsOf(results) == [i \in 1..Len(results) |-> parseInt(results[i])]

\* a result that is returned without de-duplication
uniqueContacts_keepsDuplicates(arr) == arr

\* [...new Set(arr)]: insertion order of the first occurrences
RECURSIVE uniqueContacts(_)
uniqueContacts(arr) ==
  IF Len(arr) = 0 THEN << >>
  ELSE LET front == uniqueContacts(SubSeq(arr, 1, Len(arr) - 1))
           last  == arr[Len(arr)]
       IN IF last \in Range(front) THEN front ELSE Append(front, last)

\* Math.min(RETRIEVAL_BATCH_SIZE, maxCount - allContacts.length)
RETRIEVAL_BATCH_SIZE == 1000
countToFetch(maxCount, len) == Min(RETRIEVAL_BATCH_SIZE, maxCount - len)

\* Math.min(1000 * Math.pow(2, consecutiveErrors - 1), 10000)
readerDelay(consecutiveErrors) == Min(1000 * Pow2(consecutiveErrors - 1), 10000)

\* Math.min(1000 * Math.pow(2, retries - 1), 5000)
writerDelay(retries) == Min(1000 * Pow2(retries - 1), 5000)

----------------------------------------------------------------------------
(* getContactsFromList *)

\* a backoff sleep: after the k-th failure in a row, for ms milliseconds
NoWait == [ k |-> 0, ms |-> 0 ]

rdIdle ==
  [ caller |-> "none", listId |-> Null, maxCount |-> 0,
    allContacts |-> << >>, hasMore |-> FALSE, after |-> NoCursor,
    consecutiveErrors |-> 0, totalAttempts |-> 0,
    isLegacyList |-> FALSE, v3Success |-> FALSE,
    limit |-> 0, paramAfter |-> NoCursor,
    outcome |-> "none", result |-> << >>, errorListId |-> Null, errorCause |-> 0,
    \* history of the call, not read by the code
    requests |-> 0, served |-> << >>, lastCursor |-> NoCursor, firstAnswer |-> 0,
    failures |-> 0, streak |-> 0, waits |-> 0, lastWait |-> NoWait, pauses |-> 0,
    firstPage404 |-> FALSE ]

\* lines 99-110: the loop test and the request of the next iteration
loopContinues(f) == f.hasMore /\ Len(f.allContacts) < f.maxCount

sendRequest(f) ==
  [ f EXCEPT !.limit = countToFetch(f.maxCount, Len(f.allContacts)),
             !.paramAfter = f.after,
             !.totalAttempts = f.totalAttempts + 1,
             !.requests = f.requests + 1 ]

\* lines 164-180: after the loop
afterLoop(f) ==
  IF f.v3Success /\ Len(f.allContacts) = 0 /\ ~f.isLegacyList
  THEN \* getContactsFromLegacyList throws, the catch keeps the empty result
       [ f EXCEPT !.outcome = "returned", !.result = uniqueContacts(f.allContacts) ]
  ELSE IF f.isLegacyList
  THEN [ f EXCEPT !.outcome = "legacyError", !.errorListId = f.listId ]
  ELSE [ f EXCEPT !.outcome = "returned", !.result = uniqueContacts(f.allContacts) ]

\* the loop test, then either the next request or the code after the loop
nextIteration(f) == IF loopContinues(f) THEN sendRequest(f) ELSE afterLoop(f)

\* lines 90-110: entry of the function up to the first await
callReader(caller, listId, maxCount) ==
  nextIteration([ rdIdle EXCEPT !.caller = caller, !.listId = listId,
                                !.maxCount = maxCount, !.hasMore = TRUE ])

\* the answer to the first request of a call is recorded once
firstAnswerOf(f, answer) == IF f.requests = 1 THEN answer ELSE f.firstAnswer

\* a legacy test that reads the attempt counter as if not yet incremented
isLegacy404_beforeIncrement(status, totalAttempts) == status = 404 /\ totalAttempts = 0

\* line 140: error.response?.status === 404 && totalAttempts === 1
isLegacy404(status, totalAttempts) == status = 404 /\ totalAttempts = 1

\* a ceiling test that allows one failure too many
retriesExhausted_offByOne(consecutiveErrors) == consecutiveErrors > MAX_RETRIES

\* lines 148 and 153: consecutiveErrors >= MAX_RETRIES
retriesExhausted(consecutiveErrors) == consecutiveErrors >= MAX_RETRIES

\* a reader that stops paging while nothing has been collected
hasMoreOf_needsContacts(cursor, length, maxCount) ==
  cursor # NoCursor /\ 0 < length /\ length < maxCount

\* line 125: res.data.paging?.next?.after && allContacts.length < maxCount
hasMoreOf(cursor, length, maxCount) == cursor # NoCursor /\ length < maxCount

\* a reader that keeps its error counter over a successful page
onPage_keepsErrors(f, results, cursor) ==
  LET all     == f.allContacts \o newContactsOf(results)
      more    == hasMoreOf(cursor, Len(all), f.maxCount)
      g       == [ f EXCEPT !.v3Success = TRUE,
                            !.allContacts = all,
                            !.hasMore = more,
                            !.after = cursor,
                            !.served = f.served \o newContactsOf(results),
                            !.lastCursor = cursor,
                            !.firstAnswer = firstAnswerOf(f, 200),
                            !.streak = 0 ]
  IN IF Len(all) >= f.maxCount
     THEN afterLoop([ g EXCEPT !.allContacts = Slice(all, f.maxCount) ])
     ELSE nextIteration([ g EXCEPT !.pauses = IF more THEN f.pauses + 1 ELSE f.pauses ])

\* lines 119-137: a page arrived
onPage(f, results, cursor) ==
  LET all     == f.allContacts \o newContactsOf(results)
      more    == hasMoreOf(cursor, Len(all), f.maxCount)
      g       == [ f EXCEPT !.v3Success = TRUE,
                            !.allContacts = all,
                            !.hasMore = more,
                            !.after = cursor,
                            !.consecutiveErrors = 0,
                            !.served = f.served \o newContactsOf(results),
                            !.lastCursor = cursor,
                            !.firstAnswer = firstAnswerOf(f, 200),
                            !.streak = 0 ]
  IN IF Len(all) >= f.maxCount
     THEN afterLoop([ g EXCEPT !.allContacts = Slice(all, f.maxCount) ])
     ELSE nextIteration([ g EXCEPT !.pauses = IF more THEN f.pauses + 1 ELSE f.pauses ])

\* lines 138-161: the request failed with HTTP status `status`
onError(f, status) ==
  LET h == [ f EXCEPT !.failures = f.failures + 1, !.streak = f.streak + 1,
                      !.firstAnswer = firstAnswerOf(f, status),
                      !.firstPage404 = f.firstPage404
                                         \/ (status = 404 /\ f.requests = f.failures + 1) ]
  IN IF isLegacy404(status, h.totalAttempts)
     THEN afterLoop([ h EXCEPT !.isLegacyList = TRUE ])
     ELSE LET g == [ h EXCEPT !.consecutiveErrors = h.consecutiveErrors + 1 ]
          IN IF Len(g.allContacts) > 0 /\ retriesExhausted(g.consecutiveErrors)
             THEN afterLoop(g)
             ELSE IF Len(g.allContacts) = 0 /\ retriesExhausted(g.consecutiveErrors)
             THEN [ g EXCEPT !.outcome = "unableError",
                             !.errorListId = g.listId, !.errorCause = status ]
             ELSE nextIteration(
                    [ g EXCEPT !.waits = g.waits + 1,
                               !.lastWait = [ k |-> h.streak,
                                              ms |-> readerDelay(g.consecutiveErrors) ] ])

\* pages answered so far in this call (the request in flight not counted)
pagesServed(f) == f.requests - 1 - f.failures

pcAfterRead(f) == IF f.outcome = "none" THEN "read" ELSE "readDone"

Statuses == { 404, 500 }

\* a maintenance caller reads one list
DirectRead ==
  /\ pc = "idle"
  /\ \E listId \in { "L1" }, maxCount \in (0..MaxCount) \cup { Infinity } :
       /\ rd' = callReader("direct", listId, maxCount)
       /\ pc' = pcAfterRead(rd')
  /\ UNCHANGED <<MAX_RETRIES, cl, lg, em, fx, rt, cr, inv, vf, up, wr, cp, run, usedContacts, createdLists>>

\* the membership endpoint answers with a page
MembershipPage ==
  /\ pc = "read"
  /\ \E results \in SeqsUpTo(RecordIds, MaxPageLen), more \in BOOLEAN :
       /\ more => pagesServed(rd) < MaxPages
       /\ rd' = onPage(rd, results, IF more THEN rd.requests ELSE NoCursor)
       /\ pc' = pcAfterRead(rd')
  /\ UNCHANGED <<MAX_RETRIES, cl, lg, em, fx, rt, cr, inv, vf, up, wr, cp, run, usedContacts, createdLists>>

\* the membership endpoint answers with an error
MembershipError ==
  /\ pc = "read"
  /\ \E status \in Statuses :
       /\ rd' = onError(rd, status)
       /\ pc' = pcAfterRead(rd')
  /\ UNCHANGED <<MAX_RETRIES, cl, lg, em, fx, rt, cr, inv, vf, up, wr, cp, run, usedContacts, createdLists>>

\* the direct caller receives the result or the error
DirectReadDone ==
  /\ pc = "readDone"
  /\ rd.caller = "direct"
  /\ pc' = "idle"
  /\ rd' = rdIdle
  /\ UNCHANGED <<MAX_RETRIES, cl, lg, em, fx, rt, cr, inv, vf, up, wr, cp, run, usedContacts, createdLists>>

----------------------------------------------------------------------------
(* progressiveChunks, chunkArray, addContactsToList *)

\* the loops of lines 64-71: `s` indexes sizes, `index` is the read position
RECURSIVE chunkLoop(_, _, _, _, _)
chunkLoop(arr, sizes, s, index, result) ==
  IF s > Len(sizes) THEN result
  ELSE IF index < Len(arr)
  THEN chunkLoop(arr, sizes, s, index + sizes[s],
                 Append(result, SubSeq(arr, index + 1, Min(index + sizes[s], Len(arr)))))
  ELSE chunkLoop(arr, sizes, s + 1, index, result)

defaultSizes == <<300, 100, 50, 1>>

progressiveChunks(arr) == chunkLoop(arr, defaultSizes, 1, 0, << >>)

\* chunkArray(arr, size)
RECURSIVE chunkFrom(_, _, _)
chunkFrom(arr, size, i) ==
  IF i >= Len(arr) THEN << >>
  ELSE <<SubSeq(arr, i + 1, Min(i + size, Len(arr)))>> \o chunkFrom(arr, size, i + size)

chunkArray(arr, size) == chunkFrom(arr, size, 0)

wrIdle ==
  [ caller |-> "none", listId |-> Null, contacts |-> << >>,
    chunks |-> << >>, index |-> 0,
    retries |-> 0, successCount |-> 0, failedChunks |-> << >>,
    outcome |-> "none", returned |-> 0,
    \* history of the call, not read by the code
    verifies |-> 0, puts |-> 0, streak |-> 0, waits |-> 0, lastWait |-> NoWait,
    added |-> << >>, verdict |-> "none", tries |-> 0 ]

\* lines 299-303: the next chunk of the for loop, or the return of line 333
nextChunk(w) ==
  IF w.index + 1 > Len(w.chunks)
  THEN [ w EXCEPT !.outcome = "returned", !.returned = w.successCount ]
  ELSE [ w EXCEPT !.index = w.index + 1, !.retries = 0, !.streak = 0,
                  !.puts = w.puts + 1, !.tries = 1 ]

\* lines 295-303: the contacts are split and the first PUT is sent
startChunks(w) == nextChunk([ w EXCEPT !.chunks = progressiveChunks(w.contacts) ])

\* a writer that checks the list whatever the caller asks
callWriter_alwaysVerifies(caller, listId, contacts, skipVerification) ==
  LET w == [ wrIdle EXCEPT !.caller = caller, !.listId = listId, !.contacts = contacts ]
  IN IF Len(contacts) = 0
     THEN [ w EXCEPT !.outcome = "returned", !.returned = 0 ]
     ELSE [ w EXCEPT !.outcome = "verifying", !.verifies = 1 ]

\* lines 282-293, up to the first await
callWriter(caller, listId, contacts, skipVerification) ==
  LET w == [ wrIdle EXCEPT !.caller = caller, !.listId = listId, !.contacts = contacts ]
  IN IF Len(contacts) = 0
     THEN [ w EXCEPT !.outcome = "returned", !.returned = 0 ]
     ELSE IF ~skipVerification
     THEN [ w EXCEPT !.outcome = "verifying", !.verifies = 1 ]
     ELSE startChunks(w)

\* lines 262-270: the answer of GET /crm/v3/lists/{listId}.  The body may
\* carry the list under `list`; either object may name the processing mode
\* as processingType or as processing_type.  A request that fails and a
\* body that cannot be read both end in the catch of line 277.
Modes == { Null, "MANUAL", "DYNAMIC" }

ListObjects == [ processingType : Modes, processing_type : Modes ]

NoModes == [ processingType |-> Null, processing_type |-> Null ]

VerifyResponses ==
  [ status : { "error", "nodata" } ]
  \cup [ status : { "ok" }, hasList : { FALSE }, list : { NoModes }, root : ListObjects ]
  \cup [ status : { "ok" }, hasList : { TRUE }, list : ListObjects,
         root : { NoModes, [ processingType |-> "MANUAL", processing_type |-> "MANUAL" ] } ]

\* a verification that takes a failed fetch for a writable list
verifyListIsManual_trueOnError(res) ==
  IF res.status # "ok" THEN TRUE
  ELSE LET listData == IF res.hasList THEN res.list ELSE res.root
           processingType == IF listData.processingType # Null
                             THEN listData.processingType
                             ELSE listData.processing_type
       IN ~(processingType = Null \/ processingType # "MANUAL")

\* lines 260-280
verifyListIsManual(res) ==
  IF res.status # "ok" THEN FALSE
  ELSE LET listData == IF res.hasList THEN res.list ELSE res.root
           processingType == IF listData.processingType # Null
                             THEN listData.processingType
                             ELSE listData.processing_type
       IN ~(processingType = Null \/ processingType # "MANUAL")

\* verifyListIsManual called on its own
vfIdle == [ outcome |-> "none", res |-> [ status |-> "none" ] ]

\* a writer that adds whatever the verification answered
onVerified_ignoresVerdict(w, isManual) ==
  startChunks([ w EXCEPT !.outcome = "none",
                         !.verdict = IF isManual THEN "manual" ELSE "notManual" ])

\* lines 289-293: verifyListIsManual returned
onVerified(w, isManual) ==
  LET g == [ w EXCEPT !.verdict = IF isManual THEN "manual" ELSE "notManual" ]
  IN IF ~isManual
     THEN [ g EXCEPT !.outcome = "returned", !.returned = 0 ]
     ELSE startChunks([ g EXCEPT !.outcome = "none" ])

\* lines 316-319: the PUT of the current chunk succeeded
onAdded(w) ==
  nextChunk([ w EXCEPT !.successCount = w.successCount + Len(w.chunks[w.index]),
                       !.added = w.added \o w.chunks[w.index] ])

\* a chunk that is given up ends the whole call
onAddFailed_abortsCall(w) ==
  LET g == [ w EXCEPT !.retries = w.retries + 1, !.streak = w.streak + 1 ]
  IN IF g.retries < MAX_RETRIES
     THEN [ g EXCEPT !.waits = g.waits + 1,
                     !.lastWait = [ k |-> g.streak, ms |-> writerDelay(g.retries) ],
                     !.puts = g.puts + 1, !.tries = g.tries + 1 ]
     ELSE [ g EXCEPT !.failedChunks = Append(g.failedChunks, g.chunks[g.index]),
                     !.outcome = "returned", !.returned = g.successCount ]

\* lines 320-329: the PUT of the current chunk failed
onAddFailed(w) ==
  LET g == [ w EXCEPT !.retries = w.retries + 1, !.streak = w.streak + 1 ]
  IN IF g.retries < MAX_RETRIES
     THEN [ g EXCEPT !.waits = g.waits + 1,
                     !.lastWait = [ k |-> g.streak, ms |-> writerDelay(g.retries) ],
                     !.puts = g.puts + 1, !.tries = g.tries + 1 ]
     ELSE nextChunk([ g EXCEPT !.failedChunks = Append(g.failedChunks, g.chunks[g.index]) ])

pcAfterAdd(w) ==
  IF w.outcome = "none" THEN "add"
  ELSE IF w.outcome = "verifying" THEN "verify" ELSE "addDone"

----------------------------------------------------------------------------
(* createHubSpotList and getLegacySegmentId *)

NoResponse == [ status |-> "none" ]

crIdle ==
  [ caller |-> "none", outcome |-> "none", listId |-> 0, legacyListId |-> 0,
    \* history of the call, not read by the code
    posts |-> 0, searches |-> 0, res |-> NoResponse, searchRes |-> NoResponse ]

\* lines 228-238: the answer of POST /crm/v3/lists.  The body may carry the
\* list under `list`; either object may or may not hold a listId.
ListBodies == [ hasId : BOOLEAN ]

CreateResponses ==
  [ status : { "error" } ]
  \cup [ status : { "ok" }, hasList : { FALSE }, list : { [ hasId |-> FALSE ] },
         root : ListBodies ]
  \cup [ status : { "ok" }, hasList : { TRUE }, list : ListBodies, root : ListBodies ]

\* lines 188-195: the answer of POST /crm/v3/lists/search: how many lists it
\* holds and whether the first one carries hs_classic_list_id
SearchResponses ==
  [ status : { "error" } ]
  \cup [ status : { "ok" }, lists : { 0 }, hasProperty : { FALSE } ]
  \cup [ status : { "ok" }, lists : { 1 }, hasProperty : BOOLEAN ]

\* a lookup for which a list without the property is an error
legacyIdOf_needsProperty(sres, ilsListId) ==
  IF sres.status # "ok" THEN 0
  ELSE IF sres.lists > 0
  THEN IF sres.hasProperty THEN 1000 + ilsListId ELSE 0 - 1
  ELSE 0

\* lines 184-223, getLegacySegmentId: the legacy id, 0 for null
legacyIdOf(sres, ilsListId) ==
  IF sres.status # "ok" THEN 0
  ELSE IF sres.lists > 0
  THEN IF sres.hasProperty THEN 1000 + ilsListId ELSE 0
  ELSE 0

\* lines 225-237, up to the first await: the POST is sent
callCreate(caller) == [ crIdle EXCEPT !.caller = caller, !.posts = 1 ]

\* getLegacySegmentId called on its own, lines 184-195
callLegacy(ilsListId) ==
  [ crIdle EXCEPT !.caller = "legacy", !.listId = ilsListId,
                  !.outcome = "searching", !.searches = 1 ]

\* a creation that looks up the legacy id whatever the answer holds
onCreateAnswered_skipsIdCheck(c, res, fresh) ==
  IF res.status # "ok"
  THEN [ c EXCEPT !.outcome = "raised", !.res = res ]
  ELSE LET listData == IF res.hasList THEN res.list ELSE res.root
       IN [ c EXCEPT !.listId = IF listData.hasId THEN fresh ELSE 0,
                     !.outcome = "searching",
                     !.searches = 1, !.res = res ]

\* lines 238-247 and 254-257: the POST answered; the function throws when
\* the request failed or the list object holds no listId, else it asks for
\* the legacy id of the list `fresh` the answer names
onCreateAnswered(c, res, fresh) ==
  IF res.status # "ok"
  THEN [ c EXCEPT !.outcome = "raised", !.res = res ]
  ELSE LET listData == IF res.hasList THEN res.list ELSE res.root
       IN IF ~listData.hasId
          THEN [ c EXCEPT !.outcome = "raised", !.res = res ]
          ELSE [ c EXCEPT !.listId = fresh, !.outcome = "searching",
                          !.searches = 1, !.res = res ]

\* lines 196-222 and 247-253: the search answered; getLegacySegmentId
\* returns the id or null and createHubSpotList returns the list
onSearchAnswered(c, sres) ==
  [ c EXCEPT !.legacyListId = legacyIdOf(sres, c.listId),
             !.outcome = "returned", !.searchRes = sres ]

pcAfterCreate(c) ==
  IF c.outcome = "none" THEN "create"
  ELSE IF c.outcome = "searching" THEN "legacy" ELSE "createDone"

----------------------------------------------------------------------------
(* Invocations of processCampaignsWithDelay *)

\* the invocations that can be in progress at the same time: each request
\* that is answered 200 schedules one (lines 590-596)
Runs == 1..MaxRuns

\* the locals of one invocation, lines 482-489
invFrameIdle ==
  [ pc |-> "none", total |-> 0, index |-> 0, usedContacts |-> {},
    \* history of the invocation, not read by the code
    selections |-> << >>, lastRead |-> << >>, lastKept |-> << >>,
    invocations |-> 0 ]

invIdle == [ r \in Runs |-> invFrameIdle ]

----------------------------------------------------------------------------
(* updateContactProperties *)

upIdle ==
  [ caller |-> "none", contactIds |-> << >>, chunks |-> << >>, index |-> 0,
    outcome |-> "none",
    \* history of the call, not read by the code
    sent |-> << >>, updated |-> << >> ]

\* the for loop of line 344: the next chunk is posted, or the function returns
nextBatch(u) ==
  IF u.index + 1 > Len(u.chunks)
  THEN [ u EXCEPT !.outcome = "returned" ]
  ELSE [ u EXCEPT !.index = u.index + 1, !.sent = Append(u.sent, u.chunks[u.index + 1]) ]

\* lines 336-358, up to the first await
callUpdater(caller, contactIds) ==
  nextBatch([ upIdle EXCEPT !.caller = caller, !.contactIds = contactIds,
                            !.chunks = chunkArray(contactIds, 100) ])

\* an update that gives up at the first chunk that fails
onBatch_stopsAtFailure(u, ok) ==
  IF ok
  THEN nextBatch([ u EXCEPT !.updated = u.updated \o u.chunks[u.index] ])
  ELSE [ u EXCEPT !.outcome = "returned" ]

\* lines 354-366: the POST of the current chunk answered; a failure is
\* logged (line 363) and the loop goes on after the pause of line 366
onBatch(u, ok) ==
  nextBatch([ u EXCEPT !.updated = IF ok THEN u.updated \o u.chunks[u.index]
                                         ELSE u.updated ])

\* a caller that does not wait for the updates
pcAfterUpdate_notAwaited(u) ==
  IF u.caller = "campaign" THEN "persist"
  ELSE IF u.outcome = "none" THEN "update" ELSE "updateDone"

pcAfterUpdate(u) ==
  IF u.outcome = "none" THEN "update"
  ELSE IF u.caller = "campaign" THEN "persist" ELSE "updateDone"

----------------------------------------------------------------------------
(* processSingleCampaign *)

cpIdle ==
  [ config |-> Null,
    primaryContacts |-> << >>, secondaryContacts |-> << >>,
    primaryBeforeFilter |-> 0, primaryAfterFilter |-> 0,
    secondaryBeforeFilter |-> 0, secondaryAfterFilter |-> 0,
    selectedContacts |-> << >>, fulfillmentPercentage |-> 0,
    newList |-> 0, legacyListId |-> 0, actualContactsAdded |-> 0,
    \* history of the call, not read by the code
    legacyLookup |-> NoResponse, ops |-> << >>,
    secondaryReads |-> 0, fetchRaised |-> FALSE, createCalls |-> 0 ]

\* Math.max(count * 3, 500), lines 384 and 395
fetchCount(needed) == Max(needed * 3, 500)

\* a filter that lets used contacts through
filterUsed_keepsUsed(contacts, used) == contacts

\* contacts.filter(vid => !usedContactsSet.has(vid)), lines 389 and 400
filterUsed(contacts, used) == SelectSeq(contacts, LAMBDA vid : vid \notin used)

\* a selection that is not cut to the requested count
selectContacts_noSlice(primaryContacts, secondaryContacts, count) ==
  primaryContacts \o secondaryContacts

\* a selection that takes one contact too many
selectContacts_offByOne(primaryContacts, secondaryContacts, count) ==
  Slice(primaryContacts \o secondaryContacts, count + 1)

\* a selection that prefers the secondary list
selectContacts_secondaryFirst(primaryContacts, secondaryContacts, count) ==
  Slice(secondaryContacts \o primaryContacts, count)

\* allContacts.slice(0, count), lines 409-412
selectContacts(primaryContacts, secondaryContacts, count) ==
  Slice(primaryContacts \o secondaryContacts, count)

\* a loop that records the first selected contact only
addToUsed_firstOnly(used, selectedContacts) ==
  IF Len(selectedContacts) = 0 THEN used ELSE used \cup { selectedContacts[1] }

\* selectedContacts.forEach(vid => usedContactsSet.add(vid)), line 415
addToUsed(used, selectedContacts) == used \cup Range(selectedContacts)

\* Math.round(num / den) for num >= 0, den > 0
MathRound(num, den) == (2 * num + den) \div (2 * den)

\* line 417
fulfillmentOf(selectedLength, count) ==
  IF count > 0 THEN MathRound(selectedLength * 100, count) ELSE 0

\* lines 409-417: runs when the try block of lines 382-406 is left
select(c) ==
  LET sel == selectContacts(c.primaryContacts, c.secondaryContacts, c.config.count)
  IN [ c EXCEPT !.selectedContacts = sel,
                !.fulfillmentPercentage = fulfillmentOf(Len(sel), c.config.count) ]

\* lines 468-479 (and the document of lines 453-466)
resultOf(c) ==
  [ listId |-> c.newList,
    contactCount |-> c.actualContactsAdded,
    requestedCount |-> c.config.count,
    availableCount |-> c.primaryBeforeFilter + c.secondaryBeforeFilter,
    filteredCount |-> (c.primaryBeforeFilter - c.primaryAfterFilter)
                      + (c.secondaryBeforeFilter - c.secondaryAfterFilter),
    fulfillmentPercentage |-> c.fulfillmentPercentage ]

----------------------------------------------------------------------------
(* processCampaignsWithDelay *)

runIdle ==
  [ total |-> 0, index |-> 0, results |-> << >>, elapsed |-> 0, delay |-> 0,
    successful |-> 0, failed |-> 0,
    \* history of the run, not read by the code
    waits |-> 0, selections |-> << >>, listsCreated |-> 0, started |-> << >>,
    settled |-> << >> ]

\* line 22, with HUBSPOT_INTER_LIST_DELAY_MINUTES unset
INTER_LIST_DELAY_MS == 3 * 60 * 1000

\* Date.now() - startTime when a campaign has returned or thrown (lines 496
\* and 505)
ElapsedTimes == { 0, 1000, INTER_LIST_DELAY_MS, INTER_LIST_DELAY_MS + 1000 }

\* a delay computed with the operands exchanged
interDelay_swapped(elapsed) == Max(0, elapsed - INTER_LIST_DELAY_MS)

\* Math.max(0, INTER_LIST_DELAY_MS - elapsed), lines 497 and 506
interDelay(elapsed) == Max(0, INTER_LIST_DELAY_MS - elapsed)

Configs ==
  [ primaryListId : { "L1" }, secondaryListId : { Null, "L2" },
    count : 0..MaxRequested, sendContactListId : { Null, "S1" } ]

----------------------------------------------------------------------------
(* router.post('/create-lists') and getFilteredDate *)

\* a filter of the request body as the sequence of its characters; a filter
\* that is missing or empty is the empty sequence
Chars(str) ==
  CASE str = ""              -> << >>
    [] str = "today"         -> <<"t", "o", "d", "a", "y">>
    [] str = "all"           -> <<"a", "l", "l">>
    [] str = "t+1"           -> <<"t", "+", "1">>
    [] str = "t+2"           -> <<"t", "+", "2">>
    [] str = "t+3"           -> <<"t", "+", "3">>
    [] str = "t+9"           -> <<"t", "+", "9">>
    [] str = "t+x"           -> <<"t", "+", "x">>
    [] str = "yesterday"     -> <<"y", "e", "s", "t", "e", "r", "d", "a", "y">>

DaysInputs == { "", "today", "all", "t+1", "t+2", "t+3", "t+9", "t+x", "yesterday" }

ModeInputs == { "", "BAU", "re-engagement", "re-activation", "weekly" }

\* lines 532-533
validDaysFilters == { "today", "t+1", "t+2", "t+3", "all" }

validModeFilters == { "BAU", "re-engagement", "re-activation" }

DigitChars == { "0", "1", "2", "3", "4", "5", "6", "7", "8", "9" }

DigitValue(ch) ==
  CASE ch = "0" -> 0 [] ch = "1" -> 1 [] ch = "2" -> 2 [] ch = "3" -> 3 [] ch = "4" -> 4
    [] ch = "5" -> 5 [] ch = "6" -> 6 [] ch = "7" -> 7 [] ch = "8" -> 8 [] ch = "9" -> 9

NaN == 0 - 1

\* parseInt of a character sequence: the value of its leading digits, NaN
\* when it does not start with a digit
RECURSIVE leadingDigits(_, _)
leadingDigits(chars, acc) ==
  IF Len(chars) = 0 \/ Head(chars) \notin DigitChars THEN acc
  ELSE leadingDigits(Tail(chars), 10 * acc + DigitValue(Head(chars)))

parseIntChars(chars) ==
  IF Len(chars) = 0 \/ Head(chars) \notin DigitChars THEN NaN
  ELSE leadingDigits(chars, 0)

\* getFilteredDate returned null
NoDate == 0 - 1

\* lines 37-53: the day of the filter as its distance in days from today
getFilteredDate(daysFilter) ==
  LET chars == Chars(daysFilter)
  IN IF daysFilter = "today" THEN 0
     ELSE IF Len(chars) >= 2 /\ chars[1] = "t" /\ chars[2] = "+"
     THEN LET daysToAdd == parseIntChars(SubSeq(chars, 3, Len(chars)))
          IN IF daysToAdd = NaN THEN NoDate ELSE daysToAdd
     ELSE NoDate

rtIdle ==
  [ daysFilter |-> "", modeFilter |-> "", status |-> 0, count |-> 0,
    \* history of the handler, not read by the code
    finds |-> 0 ]

\* a validation that lets a missing date filter through
validate_acceptsMissing(daysFilter, modeFilter) ==
  IF daysFilter # "" /\ daysFilter \notin validDaysFilters THEN 400
  ELSE IF modeFilter = "" \/ modeFilter \notin validModeFilters THEN 400
  ELSE IF daysFilter \notin { "", "all" } /\ getFilteredDate(daysFilter) = NoDate THEN 400
  ELSE 0

\* lines 535-562: the status of the answer sent before the configs are
\* looked up, 0 when the handler goes on to Segmentation.find
validate(daysFilter, modeFilter) ==
  IF daysFilter = "" \/ daysFilter \notin validDaysFilters THEN 400
  ELSE IF modeFilter = "" \/ modeFilter \notin validModeFilters THEN 400
  ELSE IF daysFilter # "all" /\ getFilteredDate(daysFilter) = NoDate THEN 400
  ELSE 0

\* lines 527-574: a request arrives; it is refused with 400 or the campaign
\* configs are looked up
CreateLists ==
  /\ pc = "idle"
  /\ \E daysFilter \in DaysInputs, modeFilter \in ModeInputs :
       LET status == validate(daysFilter, modeFilter)
           r == [ rtIdle EXCEPT !.daysFilter = daysFilter, !.modeFilter = modeFilter ]
       IN IF status # 0
          THEN /\ rt' = [ r EXCEPT !.status = status ]
               /\ pc' = "idle"
          ELSE /\ rt' = [ r EXCEPT !.finds = 1 ]
               /\ pc' = "find"
  /\ UNCHANGED <<MAX_RETRIES, cl, lg, em, fx, cr, inv, vf, up, rd, wr, cp, run, usedContacts, createdLists>>

\* lines 574-588: Segmentation.find answered with `count` configs; with
\* none the answer is 404, else 200 is sent and the run is scheduled with
\* setImmediate
ConfigsFound ==
  /\ pc = "find"
  /\ \E count \in 0..MaxCampaigns :
       IF count = 0
       THEN /\ rt' = [ rt EXCEPT !.status = 404 ]
            /\ pc' = "idle"
       ELSE /\ rt' = [ rt EXCEPT !.status = 200, !.count = count ]
            /\ pc' = "scheduled"
  /\ UNCHANGED <<MAX_RETRIES, cl, lg, em, fx, cr, inv, vf, up, rd, wr, cp, run, usedContacts, createdLists>>

\* lines 574 and 598-601: Segmentation.find threw; the catch answers 500
ConfigsFailed ==
  /\ pc = "find"
  /\ rt' = [ rt EXCEPT !.status = 500 ]
  /\ pc' = "idle"
  /\ UNCHANGED <<MAX_RETRIES, cl, lg, em, fx, cr, inv, vf, up, rd, wr, cp, run, usedContacts, createdLists>>

----------------------------------------------------------------------------
(* processCampaignsWithDelay, continued *)

\* lines 590-592 and 482-485: the handler has returned and the scheduled
\* callback calls processCampaignsWithDelay, which starts with an empty Set
\* and an empty result array; of the request only the answer stays on
\* record, the filters go on to the stored document alone (line 459)
StartRun ==
  /\ pc = "scheduled"
  /\ run' = [ runIdle EXCEPT !.total = rt.count ]
  /\ rt' = [ rt EXCEPT !.daysFilter = "", !.modeFilter = "" ]
  /\ usedContacts' = {}
  /\ pc' = "loop"
  /\ UNCHANGED <<MAX_RETRIES, cl, lg, em, fx, cr, inv, vf, up, rd, wr, cp, createdLists>>

\* lines 486-492 and 370-385: the next config is taken (each config of
\* listConfigs is drawn when the loop reaches it) and its primary list is read
StartCampaign ==
  /\ pc = "loop"
  /\ run.index < run.total
  /\ \E config \in Configs :
       /\ cp' = [ cpIdle EXCEPT !.config = config, !.ops = <<"read">> ]
       /\ rd' = callReader("primary", config.primaryListId, fetchCount(config.count))
       /\ pc' = pcAfterRead(rd')
  /\ run' = [ run EXCEPT !.started = Append(run.started, run.index) ]
  /\ up' = upIdle
  /\ cr' = crIdle
  /\ UNCHANGED <<MAX_RETRIES, cl, lg, em, fx, rt, inv, vf, wr, usedContacts, createdLists>>

\* a campaign that creates no list for an empty selection
Selected_skipsCreate(c) ==
  LET d == select(c)
  IN /\ cp' = [ d EXCEPT !.createCalls = IF Len(d.selectedContacts) = 0 THEN 0 ELSE 1 ]
     /\ usedContacts' = addToUsed(usedContacts, d.selectedContacts)
     /\ run' = [ run EXCEPT !.selections = Append(run.selections, d.selectedContacts) ]
     /\ rd' = rdIdle
     /\ cr' = IF Len(d.selectedContacts) = 0 THEN crIdle ELSE callCreate("campaign")
     /\ pc' = IF Len(d.selectedContacts) = 0 THEN "persist" ELSE "create"

\* lines 409-429, entered from the try block or from its catch
Selected(c) ==
  LET d == select(c)
  IN /\ cp' = [ d EXCEPT !.createCalls = d.createCalls + 1,
                          !.ops = Append(d.ops, "create") ]
     /\ usedContacts' = addToUsed(usedContacts, d.selectedContacts)
     /\ run' = [ run EXCEPT !.selections = Append(run.selections, d.selectedContacts) ]
     /\ rd' = rdIdle
     /\ cr' = callCreate("campaign")
     /\ pc' = "create"

\* lines 385-406: getContactsFromList(primaryListId) returned or threw
PrimaryRead ==
  /\ pc = "readDone"
  /\ rd.caller = "primary"
  /\ IF rd.outcome = "returned"
     THEN LET kept == filterUsed(rd.result, usedContacts)
              c == [ cp EXCEPT !.primaryContacts = kept,
                               !.primaryBeforeFilter = Len(rd.result),
                               !.primaryAfterFilter = Len(kept) ]
          IN IF Len(kept) < c.config.count /\ c.config.secondaryListId # Null
             THEN /\ cp' = [ c EXCEPT !.secondaryReads = c.secondaryReads + 1,
                                      !.ops = Append(c.ops, "read") ]
                  /\ rd' = callReader("secondary", c.config.secondaryListId,
                                      fetchCount(c.config.count - Len(kept)))
                  /\ pc' = pcAfterRead(rd')
                  /\ UNCHANGED <<run, usedContacts, cr>>
             ELSE Selected(c)
     ELSE Selected([ cp EXCEPT !.fetchRaised = TRUE ])
  /\ UNCHANGED <<MAX_RETRIES, cl, lg, em, fx, rt, inv, vf, up, wr, createdLists>>

\* lines 397-406: getContactsFromList(secondaryListId) returned or threw
SecondaryRead ==
  /\ pc = "readDone"
  /\ rd.caller = "secondary"
  /\ IF rd.outcome = "returned"
     THEN LET kept == filterUsed(rd.result, usedContacts)
          IN Selected([ cp EXCEPT !.secondaryContacts = kept,
                                  !.secondaryBeforeFilter = Len(rd.result),
                                  !.secondaryAfterFilter = Len(kept) ])
     ELSE Selected([ cp EXCEPT !.fetchRaised = TRUE ])
  /\ UNCHANGED <<MAX_RETRIES, cl, lg, em, fx, rt, inv, vf, up, wr, createdLists>>

\* a loop that also waits after the last config
pushResult_waitsAfterLast(r, entry, elapsed) ==
  [ r EXCEPT !.results = Append(r.results, entry),
             !.settled = Append(r.settled, r.index),
             !.elapsed = elapsed, !.delay = interDelay(elapsed),
             !.waits = r.waits + 1 ]

\* a loop that ends at the first campaign that throws
pushResult_stopsOnRejected(r, entry, elapsed) ==
  LET g == [ r EXCEPT !.results = Append(r.results, entry),
                      !.settled = Append(r.settled, r.index) ]
  IN IF entry.status = "rejected"
     THEN [ g EXCEPT !.index = r.total ]
     ELSE IF r.index < r.total - 1
     THEN [ g EXCEPT !.elapsed = elapsed, !.delay = interDelay(elapsed),
                     !.waits = r.waits + 1 ]
     ELSE [ g EXCEPT !.index = r.index + 1 ]

\* a loop that keeps no entry for a campaign that throws
pushResult_dropsRejected(r, entry, elapsed) ==
  IF entry.status = "rejected"
  THEN [ r EXCEPT !.index = r.index + 1 ]
  ELSE LET g == [ r EXCEPT !.results = Append(r.results, entry),
                           !.settled = Append(r.settled, r.index) ]
       IN IF r.index < r.total - 1
          THEN [ g EXCEPT !.elapsed = elapsed, !.delay = interDelay(elapsed),
                          !.waits = r.waits + 1 ]
          ELSE [ g EXCEPT !.index = r.index + 1 ]

\* lines 492-499 and 501-509: the result is pushed; unless this was the last
\* config the delay is computed from the time the campaign took and awaited,
\* else the loop advances at once
pushResult(r, entry, elapsed) ==
  LET g == [ r EXCEPT !.results = Append(r.results, entry),
                      !.settled = Append(r.settled, r.index) ]
  IN IF r.index < r.total - 1
     THEN [ g EXCEPT !.elapsed = elapsed, !.delay = interDelay(elapsed),
                     !.waits = r.waits + 1 ]
     ELSE [ g EXCEPT !.index = r.index + 1 ]

\* the loop sleeps while the result of config `index` is already pushed
pcAfterPush(r) == IF Len(r.results) > r.index THEN "sleep" ELSE "loop"

\* lines 498 and 507: the timer of the inter-list delay fired; the iteration
\* ends and the for loop advances
DelayElapsed ==
  /\ pc = "sleep"
  /\ run' = [ run EXCEPT !.index = run.index + 1, !.elapsed = 0, !.delay = 0 ]
  /\ pc' = "loop"
  /\ UNCHANGED <<MAX_RETRIES, cl, lg, em, fx, rt, cr, inv, vf, up, rd, wr, cp, usedContacts, createdLists>>

\* lines 453-466 are reached: CreatedList.create is called
toPersist(c) ==
  /\ cp' = c
  /\ pc' = "persist"

\* the id of the list the next successful POST /crm/v3/lists creates
freshListId == 100 + run.listsCreated

\* lines 238-247: the POST answered with a list object that holds a listId;
\* getLegacySegmentId is called and its search request is sent
ListIdReturned ==
  /\ pc = "create"
  /\ \E res \in CreateResponses :
       /\ cr' = onCreateAnswered(cr, res, freshListId)
       /\ cr'.outcome = "searching"
  /\ run' = IF cr.caller = "campaign"
            THEN [ run EXCEPT !.listsCreated = run.listsCreated + 1 ]
            ELSE run
  /\ cp' = IF cr.caller = "campaign"
           THEN [ cp EXCEPT !.ops = Append(cp.ops, "lookup") ]
           ELSE cp
  /\ pc' = pcAfterCreate(cr')
  /\ UNCHANGED <<MAX_RETRIES, cl, lg, em, fx, rt, inv, vf, up, rd, wr, usedContacts, createdLists>>

\* lines 433-441: the selection goes to the send list if one is configured,
\* else to the new list; with nothing selected the record is written next
afterCreate(c) ==
  IF Len(c.selectedContacts) > 0
  THEN /\ cp' = [ c EXCEPT !.ops = Append(c.ops, IF c.config.sendContactListId # Null
                                                  THEN "send" ELSE "new") ]
       /\ wr' = IF c.config.sendContactListId # Null
                THEN callWriter("send", c.config.sendContactListId, c.selectedContacts, TRUE)
                ELSE callWriter("new", c.newList, c.selectedContacts, TRUE)
       /\ pc' = pcAfterAdd(wr')
  ELSE /\ toPersist(c)
       /\ UNCHANGED wr

\* lines 196-222, 247-253 and 429-441: the search answered, createHubSpotList
\* returns the list with its legacy id (or null) and the campaign goes on
ListCreated ==
  /\ pc = "legacy"
  /\ cr.caller = "campaign"
  /\ \E sres \in SearchResponses :
       LET g == onSearchAnswered(cr, sres)
       IN afterCreate([ cp EXCEPT !.newList = g.listId,
                                  !.legacyListId = g.legacyListId,
                                  !.legacyLookup = sres ])
  /\ cr' = crIdle
  /\ UNCHANGED <<MAX_RETRIES, cl, lg, em, fx, rt, inv, vf, up, rd, run, usedContacts, createdLists>>

\* lines 238-244 and 254-257: the POST failed or its answer holds no listId;
\* createHubSpotList throws and the catch of lines 500-509 records it
ListCreateFailed ==
  /\ pc = "create"
  /\ cr.caller = "campaign"
  /\ \E res \in CreateResponses :
       /\ cr' = onCreateAnswered(cr, res, freshListId)
       /\ cr'.outcome = "raised"
  /\ \E elapsed \in ElapsedTimes :
       run' = pushResult(run, [ status |-> "rejected", value |-> Null,
                                reason |-> "createHubSpotList" ], elapsed)
  /\ cp' = cpIdle
  /\ pc' = pcAfterPush(run')
  /\ UNCHANGED <<MAX_RETRIES, cl, lg, em, fx, rt, inv, vf, up, rd, wr, usedContacts, createdLists>>

\* lines 308-319: the membership-add PUT succeeded
MembershipAdded ==
  /\ pc = "add"
  /\ wr' = onAdded(wr)
  /\ pc' = pcAfterAdd(wr')
  /\ UNCHANGED <<MAX_RETRIES, cl, lg, em, fx, rt, cr, inv, vf, up, rd, cp, run, usedContacts, createdLists>>

\* lines 320-329: the membership-add PUT failed
MembershipAddFailed ==
  /\ pc = "add"
  /\ wr' = onAddFailed(wr)
  /\ pc' = pcAfterAdd(wr')
  /\ UNCHANGED <<MAX_RETRIES, cl, lg, em, fx, rt, cr, inv, vf, up, rd, cp, run, usedContacts, createdLists>>

\* line 437 returned: the selection goes to the new list (line 441)
SendListDone ==
  /\ pc = "addDone"
  /\ wr.caller = "send"
  /\ wr' = callWriter("new", cp.newList, cp.selectedContacts, TRUE)
  /\ cp' = [ cp EXCEPT !.ops = Append(cp.ops, "new") ]
  /\ pc' = pcAfterAdd(wr')
  /\ UNCHANGED <<MAX_RETRIES, cl, lg, em, fx, rt, cr, inv, vf, up, rd, run, usedContacts, createdLists>>

\* line 441 returned: updateContactProperties is called with the selection
\* (line 444)
NewListDone ==
  /\ pc = "addDone"
  /\ wr.caller = "new"
  /\ cp' = [ cp EXCEPT !.actualContactsAdded = wr.returned,
                        !.ops = Append(cp.ops, "update") ]
  /\ wr' = wrIdle
  /\ up' = callUpdater("campaign", cp.selectedContacts)
  /\ pc' = pcAfterUpdate(up')
  /\ UNCHANGED <<MAX_RETRIES, cl, lg, em, fx, rt, cr, inv, vf, rd, run, usedContacts, createdLists>>

\* lines 354-366: one batch update answered (ok or not), then the next chunk
PropertiesBatch ==
  /\ pc = "update"
  /\ \E ok \in BOOLEAN :
       up' = onBatch(up, ok)
  /\ pc' = pcAfterUpdate(up')
  /\ UNCHANGED <<MAX_RETRIES, cl, lg, em, fx, rt, cr, inv, vf, rd, wr, cp, run, usedContacts, createdLists>>

\* lines 453-479 and 493-499: the document is stored and the result returned
Persisted ==
  /\ pc = "persist"
  /\ createdLists' = Append(createdLists, resultOf(cp))
  /\ \E elapsed \in ElapsedTimes :
       run' = pushResult(run, [ status |-> "fulfilled", value |-> resultOf(cp) ], elapsed)
  /\ cp' = cpIdle
  /\ pc' = pcAfterPush(run')
  /\ UNCHANGED <<MAX_RETRIES, cl, lg, em, fx, rt, cr, inv, vf, up, rd, wr, usedContacts>>

\* line 453: CreatedList.create threw; the catch of lines 500-509 records it
PersistFailed ==
  /\ pc = "persist"
  /\ \E elapsed \in ElapsedTimes :
       run' = pushResult(run, [ status |-> "rejected", value |-> Null,
                                reason |-> "CreatedList.create" ], elapsed)
  /\ cp' = cpIdle
  /\ pc' = pcAfterPush(run')
  /\ UNCHANGED <<MAX_RETRIES, cl, lg, em, fx, rt, cr, inv, vf, up, rd, wr, usedContacts, createdLists>>

\* results.filter(r => r.status === status).length, lines 512-513
countStatus(results, status) ==
  Len(SelectSeq(results, LAMBDA r : r.status = status))

\* lines 512-523: the loop is over and the results are returned
RunDone ==
  /\ pc = "loop"
  /\ run.index >= run.total
  /\ run' = [ run EXCEPT !.successful = countStatus(run.results, "fulfilled"),
                         !.failed = countStatus(run.results, "rejected") ]
  /\ pc' = "runDone"
  /\ UNCHANGED <<MAX_RETRIES, cl, lg, em, fx, rt, cr, inv, vf, up, rd, wr, cp, usedContacts, createdLists>>

----------------------------------------------------------------------------
(* addContactsToList called on its own *)

\* contact ids 1..n, in order
firstContacts(n) == [ i \in 1..n |-> i ]

\* a maintenance caller adds contacts to a list
DirectAdd ==
  /\ pc = "idle"
  /\ \E n \in AddSizes, skipVerification \in BOOLEAN :
       /\ wr' = callWriter("direct", "L1", firstContacts(n), skipVerification)
       /\ pc' = pcAfterAdd(wr')
  /\ UNCHANGED <<MAX_RETRIES, cl, lg, em, fx, rt, cr, inv, vf, up, rd, cp, run, usedContacts, createdLists>>

\* lines 262-279: the list metadata request of verifyListIsManual answered
ListVerified ==
  /\ pc = "verify"
  /\ \E res \in VerifyResponses :
       /\ wr' = onVerified(wr, verifyListIsManual(res))
       /\ pc' = pcAfterAdd(wr')
  /\ UNCHANGED <<MAX_RETRIES, cl, lg, em, fx, rt, cr, inv, vf, up, rd, cp, run, usedContacts, createdLists>>

\* the direct caller receives the count
DirectAddDone ==
  /\ pc = "addDone"
  /\ wr.caller = "direct"
  /\ pc' = "idle"
  /\ wr' = wrIdle
  /\ UNCHANGED <<MAX_RETRIES, cl, lg, em, fx, rt, cr, inv, vf, up, rd, cp, run, usedContacts, createdLists>>

----------------------------------------------------------------------------
(* verifyListIsManual and updateContactProperties called on their own *)

\* a maintenance caller asks whether a list is manual (lines 260-262)
DirectVerify ==
  /\ pc = "idle"
  /\ vf' = [ vfIdle EXCEPT !.outcome = "pending" ]
  /\ pc' = "verifyOnly"
  /\ UNCHANGED <<MAX_RETRIES, cl, lg, em, fx, rt, cr, inv, up, rd, wr, cp, run, usedContacts, createdLists>>

\* lines 262-279: the list metadata request answered and the function returned
VerifyAnswered ==
  /\ pc = "verifyOnly"
  /\ \E res \in VerifyResponses :
       vf' = [ outcome |-> IF verifyListIsManual(res) THEN "true" ELSE "false",
               res |-> res ]
  /\ pc' = "verifyDone"
  /\ UNCHANGED <<MAX_RETRIES, cl, lg, em, fx, rt, cr, inv, up, rd, wr, cp, run, usedContacts, createdLists>>

\* the direct caller receives the boolean
DirectVerifyDone ==
  /\ pc = "verifyDone"
  /\ vf' = vfIdle
  /\ pc' = "idle"
  /\ UNCHANGED <<MAX_RETRIES, cl, lg, em, fx, rt, cr, inv, up, rd, wr, cp, run, usedContacts, createdLists>>

\* numbers of contact ids handed to updateContactProperties
UpdateSizes == { 0, 1, 100, 250 }

\* a maintenance caller updates the properties of contacts
DirectUpdate ==
  /\ pc = "idle"
  /\ \E n \in UpdateSizes :
       up' = callUpdater("direct", firstContacts(n))
  /\ pc' = pcAfterUpdate(up')
  /\ UNCHANGED <<MAX_RETRIES, cl, lg, em, fx, rt, cr, inv, vf, rd, wr, cp, run, usedContacts, createdLists>>

\* the direct caller sees the function return
DirectUpdateDone ==
  /\ pc = "updateDone"
  /\ up' = upIdle
  /\ pc' = "idle"
  /\ UNCHANGED <<MAX_RETRIES, cl, lg, em, fx, rt, cr, inv, vf, rd, wr, cp, run, usedContacts, createdLists>>

----------------------------------------------------------------------------
(* createHubSpotList and getLegacySegmentId called on their own *)

\* a maintenance caller creates a list
DirectCreate ==
  /\ pc = "idle"
  /\ cr' = callCreate("direct")
  /\ pc' = pcAfterCreate(cr')
  /\ UNCHANGED <<MAX_RETRIES, cl, lg, em, fx, rt, inv, vf, up, rd, wr, cp, run, usedContacts, createdLists>>

\* lines 238-244 and 254-257: createHubSpotList throws to the direct caller
DirectCreateFailed ==
  /\ pc = "create"
  /\ cr.caller = "direct"
  /\ \E res \in CreateResponses :
       /\ cr' = onCreateAnswered(cr, res, freshListId)
       /\ cr'.outcome = "raised"
  /\ pc' = pcAfterCreate(cr')
  /\ UNCHANGED <<MAX_RETRIES, cl, lg, em, fx, rt, inv, vf, up, rd, wr, cp, run, usedContacts, createdLists>>

\* a maintenance caller asks for the legacy id of a list
DirectLegacy ==
  /\ pc = "idle"
  /\ cr' = callLegacy(freshListId)
  /\ pc' = pcAfterCreate(cr')
  /\ UNCHANGED <<MAX_RETRIES, cl, lg, em, fx, rt, inv, vf, up, rd, wr, cp, run, usedContacts, createdLists>>

\* lines 196-222 (and 247-253): the search answered a direct caller
LegacyAnswered ==
  /\ pc = "legacy"
  /\ cr.caller \in { "direct", "legacy" }
  /\ \E sres \in SearchResponses :
       cr' = onSearchAnswered(cr, sres)
  /\ pc' = pcAfterCreate(cr')
  /\ UNCHANGED <<MAX_RETRIES, cl, lg, em, fx, rt, inv, vf, up, rd, wr, cp, run, usedContacts, createdLists>>

\* the direct caller receives the list, the legacy id or the error
DirectCreateDone ==
  /\ pc = "createDone"
  /\ cr' = crIdle
  /\ pc' = "idle"
  /\ UNCHANGED <<MAX_RETRIES, cl, lg, em, fx, rt, inv, vf, up, rd, wr, cp, run, usedContacts, createdLists>>

----------------------------------------------------------------------------
(* Data retention scheduler *)

\* calendar days (now.toDateString()) and the parts of a day: before
\* 02:00, the minute 02:00, after it
Days == 1..MaxDays

Slots == <<"early", "two", "late">>

NoLastInit == [ wasRunning |-> FALSE, newIntervals |-> 0, newTimers |-> 0 ]

\* lines 12-13: the module state after load, with the clock and the timers
\* of the process
clIdle ==
  [ schedulerInterval |-> FALSE, lastCleanupDate |-> 0,
    day |-> 1, slot |-> 1, timers |-> 0, intervals |-> 0, running |-> {},
    \* history, not read by the code
    starts |-> [ d \in Days |-> 0 ], failed |-> {}, declined |-> {},
    stopped |-> FALSE, startedWhileStopped |-> FALSE, lastInit |-> NoLastInit ]

\* line 117: currentHour === CLEANUP_HOUR && currentMinute === CLEANUP_MINUTE
isScheduledTime(c) == Slots[c.slot] = "two"

\* a test that forgets the date of the last run
shouldRunCleanup_ignoresDate(c) == isScheduledTime(c)

\* lines 110-123
shouldRunCleanup(c) == isScheduledTime(c) /\ c.lastCleanupDate # c.day

\* lines 147-154 and 183-184: lastCleanupDate is set and
\* runDataRetentionCleanup is called
startCleanup(c) ==
  [ c EXCEPT !.lastCleanupDate = c.day,
             !.running = c.running \cup { c.day },
             !.starts[c.day] = c.starts[c.day] + 1,
             !.startedWhileStopped = c.startedWhileStopped \/ c.stopped ]

\* lines 129-199
InitializeAutoCleanup ==
  /\ cl.schedulerInterval \/ cl.timers < MaxTimers
  /\ cl' = IF cl.schedulerInterval
           THEN [ cl EXCEPT !.lastInit = [ wasRunning |-> TRUE, newIntervals |-> 0,
                                           newTimers |-> 0 ] ]
           ELSE [ cl EXCEPT !.schedulerInterval = TRUE,
                            !.intervals = cl.intervals + 1,
                            !.timers = cl.timers + 1,
                            !.stopped = FALSE, !.startedWhileStopped = FALSE,
                            !.lastInit = [ wasRunning |-> FALSE, newIntervals |-> 1,
                                           newTimers |-> 1 ] ]
  /\ UNCHANGED <<pipelineVars, lg, em, fx>>

\* lines 204-210
StopAutoCleanup ==
  /\ cl' = IF cl.schedulerInterval
           THEN [ cl EXCEPT !.schedulerInterval = FALSE,
                            !.intervals = cl.intervals - 1,
                            !.stopped = TRUE, !.startedWhileStopped = FALSE ]
           ELSE [ cl EXCEPT !.stopped = TRUE, !.startedWhileStopped = FALSE ]
  /\ cl' # cl
  /\ UNCHANGED <<pipelineVars, lg, em, fx>>

\* lines 144-154: a tick of an interval that was not cleared
SchedulerTick ==
  /\ cl.intervals > 0
  /\ cl' = IF shouldRunCleanup(cl) THEN startCleanup(cl)
           ELSE IF isScheduledTime(cl)
           THEN [ cl EXCEPT !.declined = cl.declined \cup { cl.day } ]
           ELSE cl
  /\ cl' # cl
  /\ UNCHANGED <<pipelineVars, lg, em, fx>>

\* lines 172-184: a start-up timer fires, 5 seconds after it was set
StartupTimer ==
  /\ cl.timers > 0
  /\ LET c == [ cl EXCEPT !.timers = cl.timers - 1 ]
     IN cl' = IF c.lastCleanupDate # c.day THEN startCleanup(c)
              ELSE [ c EXCEPT !.declined = c.declined \cup { c.day } ]
  /\ UNCHANGED <<pipelineVars, lg, em, fx>>

\* lines 87-104, 154-167 and 184-196: a cleanup in progress ends; the deletes
\* report their failure in the result (lines 44-51 and 73-80)
CleanupFinished ==
  /\ \E d \in cl.running, ok \in BOOLEAN :
       cl' = [ cl EXCEPT !.running = cl.running \ { d },
                         !.failed = IF ok THEN cl.failed ELSE cl.failed \cup { d } ]
  /\ UNCHANGED <<pipelineVars, lg, em, fx>>

\* time passes
ClockAdvance ==
  /\ IF cl.slot < Len(Slots)
     THEN cl' = [ cl EXCEPT !.slot = cl.slot + 1 ]
     ELSE /\ cl.day < MaxDays
          /\ cl' = [ cl EXCEPT !.day = cl.day + 1, !.slot = 1 ]
  /\ UNCHANGED <<pipelineVars, lg, em, fx>>

NextCleanup ==
  \/ InitializeAutoCleanup
  \/ StopAutoCleanup
  \/ SchedulerTick
  \/ StartupTimer
  \/ CleanupFinished
  \/ ClockAdvance

----------------------------------------------------------------------------
(* Login tracking *)

\* the email of the form as the sequence of its parts; Undefined when the
\* body has no email field
Undefined == <<"undefined">>

Emails ==
  { Undefined, << >>, <<"ann", "@blueoshan.com">>, <<"@blueoshan.com">>,
    <<"ann", "@blueoshan.com", ".example.org">>, <<"bob", "@example.org">> }

Passwords == { "54321", "12345" }

\* String.prototype.endsWith for a suffix that is one part
endsWith(str, suffix) == Len(str) > 0 /\ str[Len(str)] = suffix

\* line 223
credentialsValid(email, password) ==
  endsWith(email, "@blueoshan.com") /\ password = "54321"

\* lines 183-205 of service/loginTracking.js: the verdict on the attempts of
\* the window (the attempts of the model all come from one address)
isSuspicious(recentAttempts) ==
  \/ Len(SelectSeq(recentAttempts, LAMBDA r : r = "failed")) >= 3
  \/ Len(recentAttempts) >= 5

\* the handler before a request, and the LoginActivity collection
lgIdle ==
  [ pc |-> "idle", email |-> Undefined, password |-> "12345",
    sessionUser |-> Undefined, response |-> "none",
    store |-> << >>,
    \* history, not read by the code
    requests |-> 0, findFailed |-> FALSE, saveFailed |-> FALSE, suspicious |-> FALSE ]

\* lines 223-245 up to the await of logLoginAttempt, and the TypeError of
\* email.endsWith when the body has no email (caught in line 247)
validateLogin(f) ==
  IF f.email = Undefined
  THEN [ f EXCEPT !.pc = "done", !.response = "render" ]
  ELSE [ f EXCEPT !.pc = "save" ]

\* lines 209-221: the request arrives
LoginPosted ==
  /\ lg.pc \in { "idle", "done" }
  /\ lg.requests < MaxLogins
  /\ \E email \in Emails, password \in Passwords :
       LET f == [ lg EXCEPT !.email = email, !.password = password,
                            !.sessionUser = Undefined, !.response = "none",
                            !.requests = lg.requests + 1,
                            !.findFailed = FALSE, !.saveFailed = FALSE,
                            !.suspicious = FALSE ]
       IN lg' = IF email # Undefined /\ email # << >>
                THEN [ f EXCEPT !.pc = "find" ]
                ELSE validateLogin(f)
  /\ UNCHANGED <<pipelineVars, cl, em, fx>>

\* lines 170-207 and 215-223: LoginActivity.find answered
ActivityFound ==
  /\ lg.pc = "find"
  /\ lg' = validateLogin([ lg EXCEPT !.suspicious = isSuspicious(lg.store) ])
  /\ UNCHANGED <<pipelineVars, cl, em, fx>>

\* lines 208-211 and 247-257: LoginActivity.find failed;
\* detectSuspiciousActivity rethrows and the handler's catch answers
ActivityFindFailed ==
  /\ lg.pc = "find"
  /\ lg' = [ lg EXCEPT !.pc = "done", !.response = "render", !.findFailed = TRUE ]
  /\ UNCHANGED <<pipelineVars, cl, em, fx>>

\* lines 36-45 and 225-245: loginActivity.save answered or failed;
\* logLoginAttempt returns either way and the handler answers
AttemptLogged ==
  /\ lg.pc = "save"
  /\ \E ok \in BOOLEAN :
       LET valid == credentialsValid(lg.email, lg.password)
           f == [ lg EXCEPT !.pc = "done",
                            !.store = IF ok
                                      THEN Append(lg.store, IF valid THEN "success" ELSE "failed")
                                      ELSE lg.store,
                            !.saveFailed = ~ok ]
       IN lg' = IF valid
                THEN [ f EXCEPT !.sessionUser = lg.email, !.response = "redirect" ]
                ELSE [ f EXCEPT !.response = "render" ]
  /\ UNCHANGED <<pipelineVars, cl, em, fx>>

NextLogin ==
  \/ LoginPosted
  \/ ActivityFound
  \/ ActivityFindFailed
  \/ AttemptLogged

----------------------------------------------------------------------------
(* include-list-in-email *)

\* the list of the request and an email's recipient lists: an entry of
\* to.contactLists.include is a string or a number; "#" marks the number
EmailListId == 100

IncludeEntries == { "1100", "#1100", "null", "55" }

IncludeLists == SUBSET IncludeEntries

\* line 776: String(legacyListId), "null" for null
StringOf(legacyListId) == IF legacyListId = 0 THEN "null" ELSE "1100"

\* lines 781 and 828: parseInt(legacyListId), NaN for null
ParseIntOf(legacyListId) == IF legacyListId = 0 THEN "NaN" ELSE "#1100"

\* lines 781 and 827-828
includesList(include, legacyListId) ==
  StringOf(legacyListId) \in include \/ ParseIntOf(legacyListId) \in include

\* lines 759-764 and 818-823: the answer of GET /marketing/v3/emails/{id};
\* the state may be absent from the body
EmailStates == { Null, "DRAFT", "PUBLISHED" }

EmailResponses ==
  [ status : { "error" } ]
  \cup [ status : { "ok" }, state : EmailStates, include : IncludeLists ]

\* lines 751-755: the answer of CreatedList.findOne and of listRecord.save
FindOutcomes == { "none", "same", "differs", "error" }

\* line 813
maxRetries == 3

\* the handler before a request
emIdle ==
  [ pc |-> "idle", legacyListId |-> 0, attempt |-> 0, response |-> "none",
    \* history, not read by the code
    looked |-> FALSE, observed |-> NoResponse, patches |-> 0, payload |-> {},
    verifyReads |-> 0, verified |-> NoResponse, saved |-> FALSE ]

\* lines 857-884: the catch answers with success false
emFailed(f) == [ f EXCEPT !.pc = "done", !.response = "error" ]

\* lines 742-749: the request arrives and the legacy id is looked up
IncludePosted ==
  /\ em.pc \in { "idle", "done" }
  /\ em' = [ emIdle EXCEPT !.pc = "legacy" ]
  /\ UNCHANGED <<pipelineVars, cl, lg, fx>>

\* lines 749-759: getLegacySegmentId returned the id or null
LegacyResolved ==
  /\ em.pc = "legacy"
  /\ \E sres \in SearchResponses :
       LET id == legacyIdOf(sres, EmailListId)
       IN em' = [ em EXCEPT !.legacyListId = id, !.looked = TRUE,
                            !.pc = IF id # 0 THEN "findOne" ELSE "get" ]
  /\ UNCHANGED <<pipelineVars, cl, lg, fx>>

\* lines 751-759: CreatedList.findOne answered
RecordLookedUp ==
  /\ em.pc = "findOne"
  /\ \E outcome \in FindOutcomes :
       em' = IF outcome = "error" THEN emFailed(em)
             ELSE IF outcome = "differs" THEN [ em EXCEPT !.pc = "save" ]
             ELSE [ em EXCEPT !.pc = "get" ]
  /\ UNCHANGED <<pipelineVars, cl, lg, fx>>

\* lines 754-759: listRecord.save answered
RecordSaved ==
  /\ em.pc = "save"
  /\ \E ok \in BOOLEAN :
       em' = IF ok THEN [ em EXCEPT !.pc = "get", !.saved = TRUE ] ELSE emFailed(em)
  /\ UNCHANGED <<pipelineVars, cl, lg, fx>>

\* lines 764-808: the email arrived; the handler answers or sends the PATCH
EmailFetched ==
  /\ em.pc = "get"
  /\ \E res \in EmailResponses :
       LET f == [ em EXCEPT !.observed = res ]
       IN em' = IF res.status # "ok" THEN emFailed(f)
                ELSE IF res.state # Null /\ res.state # "DRAFT"
                THEN [ f EXCEPT !.pc = "done", !.response = "notDraft" ]
                ELSE IF includesList(res.include, f.legacyListId)
                THEN [ f EXCEPT !.pc = "done", !.response = "alreadyIncluded" ]
                ELSE [ f EXCEPT !.pc = "patch", !.patches = f.patches + 1,
                                !.payload = res.include \cup { StringOf(f.legacyListId) } ]
  /\ UNCHANGED <<pipelineVars, cl, lg, fx>>

\* lines 804-821: the PATCH answered; after 2 s the email is read again
PatchAnswered ==
  /\ em.pc = "patch"
  /\ \E ok \in BOOLEAN :
       em' = IF ok THEN [ em EXCEPT !.pc = "verify", !.attempt = 0,
                                    !.verifyReads = em.verifyReads + 1 ]
             ELSE emFailed(em)
  /\ UNCHANGED <<pipelineVars, cl, lg, fx>>

\* lines 815-855: a verification read answered
EmailVerified ==
  /\ em.pc = "verify"
  /\ \E res \in EmailResponses :
       LET f == [ em EXCEPT !.verified = res ]
       IN em' = IF res.status # "ok" THEN emFailed(f)
                ELSE IF includesList(res.include, f.legacyListId)
                THEN [ f EXCEPT !.pc = "done", !.response = "added" ]
                ELSE IF f.attempt + 1 < maxRetries
                THEN [ f EXCEPT !.attempt = f.attempt + 1,
                                !.verifyReads = f.verifyReads + 1 ]
                ELSE [ f EXCEPT !.pc = "done", !.attempt = f.attempt + 1,
                                !.response = "notAdded" ]
  /\ UNCHANGED <<pipelineVars, cl, lg, fx>>

NextEmail ==
  \/ IncludePosted
  \/ LegacyResolved
  \/ RecordLookedUp
  \/ RecordSaved
  \/ EmailFetched
  \/ PatchAnswered
  \/ EmailVerified

----------------------------------------------------------------------------
(* fix-all-legacy-ids *)

\* the ILS id of the i-th stored list and the legacy id HubSpot holds for it
ilsIdOf(i) == 100 + i

legacyOf(ilsListId) == 1000 + ilsListId

\* a stored legacyListId: null (0), the ILS id itself, the legacy id, or a
\* stale value
StoredLegacyIds(i) == { 0, ilsIdOf(i), legacyOf(ilsIdOf(i)), 7 }

StoredLists ==
  UNION { [ 1..n -> { 0, 7, 101, 102, 1101, 1102 } ] : n \in 0..MaxLists }

\* CreatedList.find({}).lean() before the first run
InitialLists ==
  { l \in StoredLists : \A i \in 1..Len(l) : l[i] \in StoredLegacyIds(i) }

\* lines 704-724: what getLegacyIdFromHubSpot returns for each list as long
\* as the remote does not change: the legacy id, or null (0) when the
\* search fails or holds no id
Remotes == [ 1..MaxLists -> BOOLEAN ]

\* String(v) of an id or of null
StringId(v) == IF v = 0 THEN <<"null">> ELSE <<"id", v>>

\* a comparison that never finds the stored id correct
sameId_never(currentLegacyId, correctLegacyId) == FALSE

\* line 763: String(currentLegacyId) === String(correctLegacyId)
sameId(currentLegacyId, correctLegacyId) ==
  StringId(currentLegacyId) = StringId(correctLegacyId)

NoStats == [ total |-> 0, fixed |-> 0, alreadyCorrect |-> 0, errors |-> 0 ]

\* the handler before a request, the CreatedList collection and the remote
fxIdle ==
  [ pc |-> "idle", lists |-> << >>, remote |-> [ i \in 1..MaxLists |-> FALSE ],
    allLists |-> << >>, index |-> 0,
    totalProcessed |-> 0, totalFixed |-> 0, totalAlreadyCorrect |-> 0,
    totalErrors |-> 0, status |-> 0, stats |-> NoStats,
    \* history, not read by the code
    runs |-> 0, processed |-> << >>, written |-> << >>, fixedLists |-> << >>,
    prevStatus |-> 0, prevFixed |-> 0 ]

\* lines 727-746 and 788-809: the next list is taken and its legacy id is
\* asked for, or the loop is over and the counts are reported
nextList(f) ==
  IF f.index + 1 > Len(f.allLists)
  THEN [ f EXCEPT !.pc = "done", !.status = 200,
                  !.stats = [ total |-> f.totalProcessed, fixed |-> f.totalFixed,
                              alreadyCorrect |-> f.totalAlreadyCorrect,
                              errors |-> f.totalErrors ] ]
  ELSE [ f EXCEPT !.pc = "search", !.index = f.index + 1,
                  !.totalProcessed = f.totalProcessed + 1,
                  !.processed = Append(f.processed, f.index + 1) ]

\* lines 811-818: the catch answers 500
fxAborted(f) == [ f EXCEPT !.pc = "done", !.status = 500 ]

\* lines 676-684: the request arrives; the collection and the remote are
\* what they are when the first run starts
FixPosted ==
  /\ fx.pc \in { "idle", "done" }
  /\ fx.runs < MaxFixRuns
  /\ \E lists \in InitialLists, remote \in Remotes :
       LET g == IF fx.runs = 0
                THEN [ fx EXCEPT !.lists = lists, !.remote = remote ]
                ELSE fx
       IN fx' = [ fxIdle EXCEPT !.pc = "find", !.lists = g.lists, !.remote = g.remote,
                                !.runs = fx.runs + 1,
                                !.prevStatus = fx.status, !.prevFixed = fx.stats.fixed ]
  /\ UNCHANGED <<pipelineVars, cl, lg, em>>

\* lines 684-699 and 727-746: CreatedList.find answered
ListsFound ==
  /\ fx.pc = "find"
  /\ \E ok \in BOOLEAN :
       fx' = IF ~ok THEN fxAborted(fx)
             ELSE nextList([ fx EXCEPT !.allLists = fx.lists ])
  /\ UNCHANGED <<pipelineVars, cl, lg, em>>

\* lines 746-772: getLegacyIdFromHubSpot returned for the current list
LegacyIdFetched ==
  /\ fx.pc = "search"
  /\ LET ilsListId       == ilsIdOf(fx.index)
         currentLegacyId == fx.allLists[fx.index]
         correctLegacyId == IF fx.remote[fx.index] THEN legacyOf(ilsListId) ELSE 0
     IN fx' = IF correctLegacyId = 0
              THEN [ fx EXCEPT !.pc = "sleep", !.totalErrors = fx.totalErrors + 1 ]
              ELSE IF sameId(currentLegacyId, correctLegacyId)
              THEN [ fx EXCEPT !.pc = "sleep",
                               !.totalAlreadyCorrect = fx.totalAlreadyCorrect + 1 ]
              ELSE [ fx EXCEPT !.pc = "update",
                               !.written = Append(fx.written, fx.index) ]
  /\ UNCHANGED <<pipelineVars, cl, lg, em>>

\* lines 769-785: CreatedList.updateOne answered
ListUpdated ==
  /\ fx.pc = "update"
  /\ \E ok \in BOOLEAN :
       fx' = IF ok
             THEN [ fx EXCEPT !.pc = "sleep",
                              !.lists[fx.index] = legacyOf(ilsIdOf(fx.index)),
                              !.totalFixed = fx.totalFixed + 1,
                              !.fixedLists = Append(fx.fixedLists, fx.index) ]
             ELSE fxAborted(fx)
  /\ UNCHANGED <<pipelineVars, cl, lg, em>>

\* lines 758-759 and 785: the pause of 500 ms is over
FixerPauseOver ==
  /\ fx.pc = "sleep"
  /\ fx' = nextList(fx)
  /\ UNCHANGED <<pipelineVars, cl, lg, em>>

NextFixer ==
  \/ FixPosted
  \/ ListsFound
  \/ LegacyIdFetched
  \/ ListUpdated
  \/ FixerPauseOver

----------------------------------------------------------------------------
(* Direct calls of the component functions (maintenance workflows) *)

InitCalls ==
  /\ MAX_RETRIES \in 1..MaxCeiling
  /\ pc = "idle"
  /\ rd = rdIdle
  /\ wr = wrIdle
  /\ cp = cpIdle
  /\ run = runIdle
  /\ usedContacts = {}
  /\ createdLists = << >>
  /\ vf = vfIdle
  /\ up = upIdle
  /\ rt = rtIdle
  /\ cr = crIdle
  /\ inv = invIdle
  /\ cl = clIdle
  /\ lg = lgIdle
  /\ em = emIdle
  /\ fx = fxIdle

NextCalls ==
  \/ DirectRead
  \/ MembershipPage
  \/ MembershipError
  \/ DirectReadDone
  \/ DirectAdd
  \/ ListVerified
  \/ MembershipAdded
  \/ MembershipAddFailed
  \/ DirectAddDone
  \/ DirectVerify
  \/ VerifyAnswered
  \/ DirectVerifyDone
  \/ DirectUpdate
  \/ PropertiesBatch
  \/ DirectUpdateDone
  \/ DirectCreate
  \/ ListIdReturned
  \/ DirectCreateFailed
  \/ DirectLegacy
  \/ LegacyAnswered
  \/ DirectCreateDone

SpecCalls == InitCalls /\ [][NextCalls]_vars

\* the services beside the list pipeline start from the loaded modules; the
\* clock of the scheduler runs on before and after initializeAutoCleanup is
\* called, so the call comes at any time of day
InitServices ==
  /\ InitCalls
  /\ MAX_RETRIES = 3

SpecLogin ==
  /\ InitServices
  /\ [][NextLogin]_vars

SpecEmail ==
  /\ InitServices
  /\ [][NextEmail]_vars

SpecFixer ==
  /\ InitServices
  /\ [][NextFixer]_vars

SpecCleanup ==
  /\ InitServices
  /\ [][NextCleanup]_vars

----------------------------------------------------------------------------
(* getContactsFromList against an endpoint that may page without end *)

\* the frame without the history of the call; totalAttempts is only ever
\* compared with 1 (line 140), so every value above 1 is kept as 2
withoutHistory(f) ==
  [ f EXCEPT !.totalAttempts = Min(f.totalAttempts, 2),
             !.requests = 0, !.failures = 0, !.waits = 0, !.pauses = 0,
             !.streak = 0, !.lastWait = NoWait, !.lastCursor = NoCursor,
             !.firstAnswer = 0, !.firstPage404 = FALSE, !.served = << >> ]

\* a caller reads one list with a finite maxCount
PagingRead ==
  /\ pc = "idle"
  /\ \E maxCount \in 0..MaxCount :
       /\ rd' = withoutHistory(callReader("direct", "L1", maxCount))
       /\ pc' = pcAfterRead(rd')
  /\ UNCHANGED <<MAX_RETRIES, cl, lg, em, fx, rt, cr, inv, vf, up, wr, cp, run, usedContacts, createdLists>>

\* lines 110-137: the endpoint answers with a page, with or without results
\* and with or without a cursor, as often as it is asked
PagingPage ==
  /\ pc = "read"
  /\ \E results \in SeqsUpTo(RecordIds, MaxPageLen), more \in BOOLEAN :
       /\ rd' = withoutHistory(onPage(rd, results, IF more THEN 1 ELSE NoCursor))
       /\ pc' = pcAfterRead(rd')
  /\ UNCHANGED <<MAX_RETRIES, cl, lg, em, fx, rt, cr, inv, vf, up, wr, cp, run, usedContacts, createdLists>>

\* lines 138-161: the endpoint answers with an error
PagingError ==
  /\ pc = "read"
  /\ \E status \in Statuses :
       /\ rd' = withoutHistory(onError(rd, status))
       /\ pc' = pcAfterRead(rd')
  /\ UNCHANGED <<MAX_RETRIES, cl, lg, em, fx, rt, cr, inv, vf, up, wr, cp, run, usedContacts, createdLists>>

\* the caller receives the result or the error
PagingDone ==
  /\ pc = "readDone"
  /\ pc' = "idle"
  /\ rd' = rdIdle
  /\ UNCHANGED <<MAX_RETRIES, cl, lg, em, fx, rt, cr, inv, vf, up, wr, cp, run, usedContacts, createdLists>>

NextPaging ==
  \/ PagingRead
  \/ PagingPage
  \/ PagingError
  \/ PagingDone

\* every request is answered (the requests carry a timeout of 30 s, line 115)
\* and every sleep ends
SpecPaging == InitCalls /\ [][NextPaging]_vars /\ WF_vars(NextPaging)

----------------------------------------------------------------------------
(* Campaign runs *)

Init ==
  /\ MAX_RETRIES \in 1..RunCeiling
  /\ pc = "idle"
  /\ rd = rdIdle
  /\ wr = wrIdle
  /\ cp = cpIdle
  /\ run = runIdle
  /\ usedContacts = {}
  /\ createdLists = << >>
  /\ vf = vfIdle
  /\ up = upIdle
  /\ rt = rtIdle
  /\ cr = crIdle
  /\ inv = invIdle
  /\ cl = clIdle
  /\ lg = lgIdle
  /\ em = emIdle
  /\ fx = fxIdle

Next ==
  \/ CreateLists
  \/ ConfigsFound
  \/ ConfigsFailed
  \/ StartRun
  \/ StartCampaign
  \/ MembershipPage
  \/ MembershipError
  \/ PrimaryRead
  \/ SecondaryRead
  \/ ListIdReturned
  \/ ListCreated
  \/ ListCreateFailed
  \/ MembershipAdded
  \/ MembershipAddFailed
  \/ SendListDone
  \/ NewListDone
  \/ PropertiesBatch
  \/ Persisted
  \/ PersistFailed
  \/ DelayElapsed
  \/ RunDone

Spec == Init /\ [][Next]_vars

----------------------------------------------------------------------------
(* Invocations of processCampaignsWithDelay in progress at the same time *)

\* the contacts a source list serves to any invocation that reads it
RunReads ==
  { s \in SeqsUpTo(1..MaxPageLen, MaxPageLen) :
      \A i, j \in 1..Len(s) : i # j => s[i] # s[j] }

\* a set kept by the process and handed to every invocation
newDedupSet_processWide(i, r) == UNION { i[q].usedContacts : q \in Runs }

\* line 484: const usedContacts = new Set()
newDedupSet(i, r) == {}

\* lines 482-485 and 590-596: a scheduled invocation starts
InvokeRun ==
  \E r \in Runs :
    /\ inv[r].pc = "none"
    /\ inv[r].invocations < MaxInvocations
    /\ \E total \in 1..MaxCampaigns :
         inv' = [ inv EXCEPT ![r] =
                    [ invFrameIdle EXCEPT !.pc = "loop", !.total = total,
                                          !.usedContacts = newDedupSet(inv, r),
                                          !.invocations = inv[r].invocations + 1 ] ]
    /\ UNCHANGED <<MAX_RETRIES, cl, lg, em, fx, pc, rt, cr, vf, up, rd, wr, cp, run, usedContacts, createdLists>>

\* lines 486-492 and 382-385: the next config is taken and its primary list
\* is read, with the set of the invocation handed to processSingleCampaign
RunStartCampaign ==
  \E r \in Runs :
    /\ inv[r].pc = "loop"
    /\ inv[r].index < inv[r].total
    /\ inv' = [ inv EXCEPT ![r].pc = "reading" ]
    /\ UNCHANGED <<MAX_RETRIES, cl, lg, em, fx, pc, rt, cr, vf, up, rd, wr, cp, run, usedContacts, createdLists>>

\* lines 386-415: the read returned; the contacts are filtered against the
\* set handed in, the selection is cut and added to that set
RunSelected ==
  \E r \in Runs :
    /\ inv[r].pc = "reading"
    /\ \E contacts \in RunReads, count \in 1..MaxRequested :
         LET f        == inv[r]
             kept     == filterUsed(contacts, f.usedContacts)
             selected == selectContacts(kept, << >>, count)
         IN inv' = [ inv EXCEPT ![r] =
                       [ f EXCEPT !.pc = "writing",
                                  !.usedContacts = addToUsed(f.usedContacts, selected),
                                  !.selections = Append(f.selections, selected),
                                  !.lastRead = contacts,
                                  !.lastKept = kept ] ]
    /\ UNCHANGED <<MAX_RETRIES, cl, lg, em, fx, pc, rt, cr, vf, up, rd, wr, cp, run, usedContacts, createdLists>>

\* lines 429-479 and 493-510: the campaign returned or threw and the loop
\* moves to the next config
RunCampaignDone ==
  \E r \in Runs :
    /\ inv[r].pc = "writing"
    /\ inv' = [ inv EXCEPT ![r].pc = "loop", ![r].index = inv[r].index + 1 ]
    /\ UNCHANGED <<MAX_RETRIES, cl, lg, em, fx, pc, rt, cr, vf, up, rd, wr, cp, run, usedContacts, createdLists>>

\* lines 512-523: the invocation returns; its set is no longer referenced
RunReturned ==
  \E r \in Runs :
    /\ inv[r].pc = "loop"
    /\ inv[r].index >= inv[r].total
    /\ inv' = [ inv EXCEPT ![r].pc = "none" ]
    /\ UNCHANGED <<MAX_RETRIES, cl, lg, em, fx, pc, rt, cr, vf, up, rd, wr, cp, run, usedContacts, createdLists>>

NextRuns ==
  \/ InvokeRun
  \/ RunStartCampaign
  \/ RunSelected
  \/ RunCampaignDone
  \/ RunReturned

SpecRuns == Init /\ [][NextRuns]_vars

----------------------------------------------------------------------------
(* Properties *)

NoDuplicates(s) == \A i, j \in 1..Len(s) : i # j => s[i] # s[j]

FirstIndex(s, x) == CHOOSE i \in 1..Len(s) : s[i] = x /\ \A j \in 1..(i - 1) : s[j] # x

InFirstSeenOrder(res, s) ==
  /\ Range(res) \subseteq Range(s)
  /\ \A i, j \in 1..Len(res) : i < j => FirstIndex(s, res[i]) < FirstIndex(s, res[j])

RECURSIVE SumOfLengths(_)
SumOfLengths(ss) == IF Len(ss) = 0 THEN 0 ELSE Len(Head(ss)) + SumOfLengths(Tail(ss))

Fulfilled == { i \in 1..Len(run.results) : run.results[i].status = "fulfilled" }

\* C1: within one run no contact id is in the final selection of two
\* different campaigns.
C1_NoContactInTwoSelections ==
  \A i, j \in 1..Len(run.selections) :
     i # j => Range(run.selections[i]) \cap Range(run.selections[j]) = {}

\* the second campaign of a run selected contacts after ids of the first
\* campaign were filtered out of its primary list
C1_Witness ==
  /\ pc = "create"
  /\ Len(run.selections) = 2
  /\ run.selections[1] # << >>
  /\ run.selections[2] # << >>
  /\ cp.primaryBeforeFilter > cp.primaryAfterFilter

\* the dedup set is exactly what the campaigns so far selected
DedupIsSelections ==
  /\ usedContacts = UNION { Range(run.selections[i]) : i \in 1..Len(run.selections) }
  /\ Cardinality(usedContacts) <= SumOfLengths(run.selections)
  /\ (run.selections = << >> => usedContacts = {})

\* C2: at every point of a run the dedup set equals the set of ids selected
\* by the campaigns processed so far; it never loses an element during a
\* run, and its size is at most the sum of the selected-contact counts.
C2_DedupSetTracksSelections ==
  /\ []DedupIsSelections
  /\ [][pc # "idle" => usedContacts \subseteq usedContacts']_vars

C2_Witness ==
  /\ pc = "runDone"
  /\ Len(run.selections) = 2
  /\ run.selections[1] # << >>
  /\ run.selections[2] # << >>
  /\ Cardinality(usedContacts) = 2

\* C3: every result returned by processSingleCampaign has
\* contactCount <= requestedCount and contactCount <= availableCount.
C3_AddedWithinRequestedAndAvailable ==
  \A i \in Fulfilled :
     /\ run.results[i].value.contactCount <= run.results[i].value.requestedCount
     /\ run.results[i].value.contactCount <= run.results[i].value.availableCount

\* a campaign that added exactly as many contacts as requested and available
C3_Witness ==
  \E i \in Fulfilled :
     /\ run.results[i].value.contactCount = 2
     /\ run.results[i].value.requestedCount = 2
     /\ run.results[i].value.availableCount = 2

\* C4 as stated: every persisted record has
\* contactCount <= requestedCount <= availableCount.
C4_AddedRequestedAvailableChain ==
  \A i \in 1..Len(createdLists) :
     /\ createdLists[i].contactCount <= createdLists[i].requestedCount
     /\ createdLists[i].requestedCount <= createdLists[i].availableCount

\* C4 amended: every persisted record has contactCount <= requestedCount
\* and contactCount <= availableCount (requestedCount may exceed
\* availableCount).
C4_AddedBoundedInRecord ==
  \A i \in 1..Len(createdLists) :
     /\ createdLists[i].contactCount <= createdLists[i].requestedCount
     /\ createdLists[i].contactCount <= createdLists[i].availableCount

\* a record of a campaign whose sources held fewer contacts than requested
C4_Witness ==
  \E i \in 1..Len(createdLists) :
     /\ createdLists[i].requestedCount > createdLists[i].availableCount
     /\ createdLists[i].contactCount = createdLists[i].availableCount
     /\ createdLists[i].contactCount > 0

FulfillmentFromAdded(r) ==
  r.fulfillmentPercentage =
    IF r.requestedCount > 0 THEN MathRound(r.contactCount * 100, r.requestedCount) ELSE 0

\* C5: in every result and every persisted record, fulfillmentPercentage is
\* round(contactCount / requestedCount * 100) when requestedCount > 0, else 0.
C5_FulfillmentMatchesAdded ==
  /\ \A i \in Fulfilled : FulfillmentFromAdded(run.results[i].value)
  /\ \A i \in 1..Len(createdLists) : FulfillmentFromAdded(createdLists[i])

\* C6: a result returned by getContactsFromList holds no id twice, lists the
\* ids in the order of their first occurrence in the fetched pages, and has
\* at most maxCount elements.
C6_ResultUniqueOrderedCapped ==
  rd.outcome = "returned" =>
     /\ NoDuplicates(rd.result)
     /\ InFirstSeenOrder(rd.result, rd.served)
     /\ Len(rd.result) <= rd.maxCount

\* a read that was cut at maxCount and lost a duplicate
C6_Witness ==
  /\ rd.outcome = "returned"
  /\ Len(rd.served) > rd.maxCount
  /\ Len(rd.result) < Len(rd.allContacts)
  /\ Len(rd.result) >= 2

\* C7: with every request answered by a page and maxCount unbounded, the
\* reader passes each cursor on, stops only at the page without cursor and
\* returns the distinct ids of all pages in first-seen order.
C7_AllPagesFollowed ==
  (rd.failures = 0 /\ rd.maxCount = Infinity) =>
     /\ pc = "read" => rd.paramAfter = rd.lastCursor
     /\ rd.outcome # "none" =>
          /\ rd.outcome = "returned"
          /\ rd.lastCursor = NoCursor
          /\ Range(rd.result) = Range(rd.served)
          /\ NoDuplicates(rd.result)
          /\ InFirstSeenOrder(rd.result, rd.served)

\* a cursor was followed without a failure, with a repeated id in the pages
C7_Witness ==
  /\ rd.outcome = "returned"
  /\ rd.failures = 0
  /\ rd.maxCount = Infinity
  /\ rd.requests = 2
  /\ Len(rd.result) = 2
  /\ Len(rd.served) > 2

\* C8: a 404 on the first membership request ends the read with the legacy
\* error after exactly one request and without a backoff; the outcome is
\* neither the retrieval error nor a result.
C8_Legacy404NotRetried ==
  rd.firstAnswer = 404 =>
     /\ rd.outcome = "legacyError"
     /\ rd.errorListId = rd.listId
     /\ rd.requests = 1
     /\ rd.waits = 0

C8_Witness ==
  /\ rd.firstAnswer = 404
  /\ rd.caller = "direct"
  /\ MAX_RETRIES = 3

\* C9: after MAX_RETRIES consecutive failed requests (not the legacy 404)
\* the reader has stopped: with contacts collected it returned them
\* de-duplicated, with none it raised the retrieval error carrying the list
\* id and the cause.
C9_CeilingEndsRead ==
  (rd.streak >= MAX_RETRIES /\ ~rd.isLegacyList) =>
     /\ rd.streak = MAX_RETRIES
     /\ rd.outcome \in { "returned", "unableError" }
     /\ Len(rd.allContacts) > 0 =>
          /\ rd.outcome = "returned"
          /\ NoDuplicates(rd.result)
          /\ Range(rd.result) = Range(rd.allContacts)
     /\ Len(rd.allContacts) = 0 =>
          /\ rd.outcome = "unableError"
          /\ rd.errorListId = rd.listId
          /\ rd.errorCause \in Statuses

\* a page was collected, then three requests in a row failed
C9_Witness ==
  /\ MAX_RETRIES = 3
  /\ rd.streak = 3
  /\ rd.outcome = "returned"
  /\ Len(rd.result) = 2

specifiedDelay(k) == Min(1000 * Pow2(k - 1), 10000)

\* C10: in the reader and in the per-batch retry loop of the writer the wait
\* after the k-th consecutive failure is min(1000 * 2^(k-1), 10000) ms.
C10_SameBackoffPolicy ==
  /\ rd.lastWait.k >= 1 => rd.lastWait.ms = specifiedDelay(rd.lastWait.k)
  /\ wr.lastWait.k >= 1 => wr.lastWait.ms = specifiedDelay(wr.lastWait.k)

\* C11: addContactsToList returns 0 without any membership-add call when
\* the input is empty (then without a verification call either) or when
\* the verification it asked for answered "not manual"; in that case the
\* write is neither attempted nor retried.
C11_NoWriteWhenEmptyOrNotManual ==
  /\ (wr.caller # "none" /\ Len(wr.contacts) = 0) =>
        /\ wr.outcome = "returned"
        /\ wr.returned = 0
        /\ wr.puts = 0
        /\ wr.verifies = 0
  /\ wr.verdict = "notManual" =>
        /\ wr.outcome = "returned"
        /\ wr.returned = 0
        /\ wr.puts = 0
        /\ wr.waits = 0
        /\ wr.verifies = 1

\* 650 contacts were handed over and the list was found not to be manual
C11_Witness ==
  /\ wr.caller = "direct"
  /\ Len(wr.contacts) = 650
  /\ wr.verdict = "notManual"
  /\ wr.outcome = "returned"

\* the object verifyListIsManual reads its mode from, and the mode it finds
ListObjectOf(res) == IF res.hasList THEN res.list ELSE res.root

ModeFieldsOf(res) ==
  { ListObjectOf(res).processingType, ListObjectOf(res).processing_type } \ { Null }

\* C12: verifyListIsManual answers true only after a successful fetch whose
\* list object (root or nested) carries the mode MANUAL; a failed fetch, a
\* list object without a mode field and a list object whose mode is not
\* MANUAL answer false; the function always returns a boolean.
C12_ManualOnlyOnFetchedManual ==
  vf.res.status # "none" =>
     /\ vf.outcome \in { "true", "false" }
     /\ vf.outcome = "true" =>
          /\ vf.res.status = "ok"
          /\ "MANUAL" \in ModeFieldsOf(vf.res)
     /\ vf.res.status # "ok" => vf.outcome = "false"
     /\ (vf.res.status = "ok" /\ ModeFieldsOf(vf.res) = {}) => vf.outcome = "false"
     /\ (vf.res.status = "ok" /\ "MANUAL" \notin ModeFieldsOf(vf.res)) => vf.outcome = "false"

\* the nested list object says MANUAL under processing_type only
C12_Witness ==
  /\ vf.outcome = "true"
  /\ vf.res.hasList
  /\ vf.res.list = [ processingType |-> Null, processing_type |-> "MANUAL" ]
  /\ vf.res.root = NoModes

SizesOf(chunks) == [ i \in 1..Len(chunks) |-> Len(chunks[i]) ]

RECURSIVE Concat(_)
Concat(ss) == IF Len(ss) = 0 THEN << >> ELSE Head(ss) \o Concat(Tail(ss))

\* C13: the batches of the membership writer follow the progressive scheme:
\* the first has up to 300 contacts, the second up to 100, every later one
\* up to 50; 650 contacts go out as [300, 100, 50, 50, 50, 50, 50], in
\* input order.
C13_ProgressiveBatchSizes ==
  Len(wr.chunks) > 0 =>
     /\ Concat(wr.chunks) = wr.contacts
     /\ \A i \in 1..Len(wr.chunks) :
          Len(wr.chunks[i]) <= (IF i = 1 THEN 300 ELSE IF i = 2 THEN 100 ELSE 50)
     /\ Len(wr.contacts) = 650 =>
          SizesOf(wr.chunks) = <<300, 100, 50, 50, 50, 50, 50>>

\* C14: addContactsToList returns the summed sizes of the batches whose PUT
\* succeeded: no batch is sent more than MAX_RETRIES times, a batch that
\* failed MAX_RETRIES times is dropped and adds nothing, every batch after
\* it is still sent, and the call returns a count.
C14_ReturnedIsSumOfSucceeded ==
  /\ wr.tries <= MAX_RETRIES
  /\ wr.puts <= MAX_RETRIES * wr.index
  /\ (wr.outcome = "returned" /\ Len(wr.chunks) > 0) =>
        /\ wr.index = Len(wr.chunks)
        /\ wr.returned = Len(wr.added)
        /\ Len(wr.added) + SumOfLengths(wr.failedChunks) = Len(wr.contacts)
        /\ Range(wr.added) \cap Range(Concat(wr.failedChunks)) = {}
        /\ Range(wr.added) \cup Range(Concat(wr.failedChunks)) = Range(wr.contacts)
        /\ wr.puts >= MAX_RETRIES * Len(wr.failedChunks)

\* of three batches the middle one failed three times and was dropped
C14_Witness ==
  /\ MAX_RETRIES = 3
  /\ wr.caller = "direct"
  /\ wr.outcome = "returned"
  /\ Len(wr.contacts) = 650
  /\ Len(wr.failedChunks) = 1
  /\ wr.failedChunks[1] = wr.chunks[2]
  /\ wr.returned = 350

\* C15: updateContactProperties posts one batch update per chunk of at most
\* 100 contact ids, in input order; a chunk whose POST fails is not sent
\* again, the chunks after it are still sent, and the function returns.
C15_OneUpdatePerChunk ==
  /\ \A i \in 1..Len(up.sent) : 1 <= Len(up.sent[i]) /\ Len(up.sent[i]) <= 100
  /\ Concat(up.sent) = SubSeq(up.contactIds, 1, Len(Concat(up.sent)))
  /\ up.outcome = "returned" =>
       /\ Concat(up.sent) = up.contactIds
       /\ Len(up.sent) = (Len(up.contactIds) + 99) \div 100
  /\ (up.caller = "direct" /\ pc = "updateDone") => up.outcome = "returned"

\* of three chunks the middle one failed and the last was still sent
C15_Witness ==
  /\ up.caller = "direct"
  /\ up.outcome = "returned"
  /\ Len(up.contactIds) = 250
  /\ Len(up.sent) = 3
  /\ up.updated = SubSeq(up.contactIds, 1, 100) \o SubSeq(up.contactIds, 201, 250)

\* the states of a campaign after its selection was made
AfterSelection == { "create", "legacy", "add", "addDone", "update", "persist" }

\* C16: every campaign issues exactly one list-create call: a fetch that
\* raised or returned nothing does not end the campaign, no campaign is
\* rejected because of a fetch, a successful result names a created list
\* that is recorded, and its contactCount is 0 when nothing was selected.
C16_OneListCreatePerCampaign ==
  /\ cp.createCalls = (IF pc \in AfterSelection THEN 1 ELSE 0)
  /\ Len(run.selections) = Len(run.started) - (IF pc \in { "read", "readDone" } THEN 1 ELSE 0)
  /\ \A i \in 1..Len(run.results) :
       IF run.results[i].status = "rejected"
       THEN run.results[i].reason \in { "createHubSpotList", "CreatedList.create" }
       ELSE /\ run.results[i].value.listId \in 100..(99 + run.listsCreated)
            /\ \E j \in 1..Len(createdLists) : createdLists[j] = run.results[i].value
            /\ run.selections[i] = << >> => run.results[i].value.contactCount = 0
  /\ (pc = "persist" /\ cp.selectedContacts = << >>) =>
        /\ cp.newList # 0
        /\ resultOf(cp).contactCount = 0

\* the primary read raised, the list was created all the same and is about
\* to be recorded
C16_Witness ==
  /\ pc = "persist"
  /\ cp.fetchRaised
  /\ cp.selectedContacts = << >>
  /\ cp.createCalls = 1
  /\ cp.newList # 0
  /\ cp.config.count > 0

\* C17: the selection is the first requestedCount contacts of the primary
\* survivors followed by the secondary survivors: it never exceeds
\* requestedCount, and it holds a secondary contact only after every
\* primary survivor.
C17_PrimaryThenSecondaryTruncated ==
  pc \in AfterSelection =>
     LET P == cp.primaryContacts
         S == cp.secondaryContacts
         sel == cp.selectedContacts
     IN /\ Len(sel) <= cp.config.count
        /\ Len(sel) = Min(cp.config.count, Len(P) + Len(S))
        /\ \A i \in 1..Len(sel) :
             sel[i] = IF i <= Len(P) THEN P[i] ELSE S[i - Len(P)]
        /\ Len(P) = cp.primaryAfterFilter
        /\ Len(S) = cp.secondaryAfterFilter

\* one primary survivor, two secondary survivors, two contacts requested
C17_Witness ==
  /\ pc = "create"
  /\ Len(cp.primaryContacts) = 1
  /\ Len(cp.secondaryContacts) = 2
  /\ cp.config.count = 2
  /\ cp.selectedContacts = <<cp.primaryContacts[1], cp.secondaryContacts[1]>>

\* C18: the secondary list of a campaign is read exactly when, after the
\* filter, the primary list gave fewer contacts than requested and a
\* secondary list id is configured, whatever made the primary list fall
\* short.
C18_SecondaryReadOnShortfall ==
  pc \in AfterSelection =>
     ((cp.primaryAfterFilter < cp.config.count /\ cp.config.secondaryListId # Null)
        <=> cp.secondaryReads = 1)

\* remote write calls of the run that are awaiting their answer
createInFlight == pc = "create"

addInFlight == wr.caller \in { "send", "new" } /\ wr.outcome = "none"

updateInFlight == up.caller = "campaign" /\ up.outcome = "none"

WritesInFlight ==
  (IF createInFlight THEN 1 ELSE 0) + (IF addInFlight THEN 1 ELSE 0)
  + (IF updateInFlight THEN 1 ELSE 0)

\* C19: the campaigns of a run start in config order, each one after the
\* one before it has returned or raised; at most one campaign is in
\* progress and at most one remote write call of the run is in flight.
C19_CampaignsInOrderNoOverlap ==
  /\ \A k \in 1..Len(run.started) : run.started[k] = k - 1
  /\ Len(run.started) - Len(run.results) \in { 0, 1 }
  /\ WritesInFlight <= 1
  /\ WritesInFlight = 1 => Len(run.started) = Len(run.results) + 1
  /\ Len(run.started) = Len(run.results) + 1 => wr.caller # "direct" /\ up.caller # "direct"

\* the second campaign is adding members after the first has returned
C19_Witness ==
  /\ Len(run.started) = 2
  /\ Len(run.results) = 1
  /\ addInFlight
  /\ WritesInFlight = 1

\* C20: the next campaign starts no sooner than INTER_LIST_DELAY_MS after
\* the start of the one before it, whether that one returned or raised and
\* however long it took; after a campaign that took longer than the delay
\* no wait is added.
C20_MinimumSpacing ==
  /\ pc = "sleep" =>
       /\ run.elapsed + run.delay >= INTER_LIST_DELAY_MS
       /\ run.elapsed > INTER_LIST_DELAY_MS => run.delay = 0
       /\ run.delay >= 0
  /\ run.waits = Len(run.results) - (IF Len(run.results) = run.total /\ run.total > 0 THEN 1 ELSE 0)

\* the first campaign raised at once and the loop waits the whole delay
C20_Witness ==
  /\ pc = "sleep"
  /\ run.results[1].status = "rejected"
  /\ run.elapsed = 0
  /\ run.delay = INTER_LIST_DELAY_MS

\* the reader stopped because of failed requests
GaveUp == rd.outcome = "unableError" \/ (rd.outcome = "returned" /\ rd.streak > 0)

\* C28: the retry ceiling of getContactsFromList counts failures in a row:
\* the error counter is the number of requests that failed since the last
\* page, it never exceeds MAX_RETRIES, and the reader gives up only with
\* MAX_RETRIES failed requests in a row, however many failed before.
C28_CeilingCountsConsecutiveFailures ==
  /\ rd.consecutiveErrors <= MAX_RETRIES
  /\ ~rd.isLegacyList => rd.consecutiveErrors = rd.streak
  /\ GaveUp => rd.streak = MAX_RETRIES
  /\ (rd.outcome = "none" /\ rd.caller # "none") => rd.streak < MAX_RETRIES

\* two requests failed with a page between them and the read went on to
\* its end
C28_Witness ==
  /\ MAX_RETRIES = 2
  /\ rd.caller = "direct"
  /\ rd.failures = 2
  /\ rd.requests = 4
  /\ rd.outcome = "returned"
  /\ rd.streak = 0
  /\ Len(rd.result) = 2

\* C29: a 404 answered while no page of the list has been read yet ends the
\* read with the legacy error, also when an earlier attempt at that first
\* page failed otherwise.
C29_FirstPage404AlwaysLegacy ==
  rd.firstPage404 => rd.outcome = "legacyError"

\* C21: a run over N campaigns waits N-1 times between campaigns: when the
\* run has returned it has waited once less than it had configs, and the
\* loop never waits after the result of the last config, fulfilled or
\* rejected.
C21_OneWaitLessThanCampaigns ==
  /\ pc = "runDone" => run.waits = run.total - 1
  /\ pc = "sleep" => Len(run.results) < run.total
  /\ run.waits <= Max(0, run.total - 1)

\* two campaigns, the last one rejected, one wait
C21_Witness ==
  /\ pc = "runDone"
  /\ run.total = 2
  /\ run.results[2].status = "rejected"
  /\ run.waits = 1

\* C22: a campaign that throws does not end the run: the campaign after it
\* is started as soon as the delay is over, and the run returns only when
\* every config has been started and has a result.
C22_RejectedCampaignDoesNotStopRun ==
  /\ pc = "runDone" =>
       /\ Len(run.started) = run.total
       /\ Len(run.results) = run.total
  /\ \A i \in 1..Len(run.results) :
       (run.results[i].status = "rejected" /\ i < run.total) =>
          \/ Len(run.started) > i
          \/ (pc \in { "sleep", "loop" } /\ Len(run.started) = i /\ run.index < run.total)

\* the first campaign was rejected, the second fulfilled, the run returned
C22_Witness ==
  /\ pc = "runDone"
  /\ run.total = 2
  /\ run.results[1].status = "rejected"
  /\ run.results[2].status = "fulfilled"

\* C23: the result of a finished run has one entry per config, in config
\* order, each fulfilled or rejected; the reported successes and failures
\* add up to the number of configs.
C23_OneEntryPerConfig ==
  pc = "runDone" =>
     /\ Len(run.results) = run.total
     /\ \A i \in 1..Len(run.results) :
          /\ run.results[i].status \in { "fulfilled", "rejected" }
          /\ run.settled[i] = i - 1
     /\ run.successful = Cardinality(Fulfilled)
     /\ run.successful + run.failed = run.total

\* a run of one campaign that throws: one failure, no success
C23_Witness ==
  /\ pc = "runDone"
  /\ run.total = 1
  /\ run.results[1].status = "rejected"
  /\ run.failed = 1
  /\ run.successful = 0

\* the remote list calls and the campaign state of the process are untouched
NothingProcessed ==
  /\ run = runIdle
  /\ cp = cpIdle
  /\ rd = rdIdle
  /\ wr = wrIdle
  /\ up = upIdle
  /\ cr = crIdle
  /\ createdLists = << >>

\* C24: POST /create-lists starts a run only for a daysFilter and a
\* modeFilter among the accepted values and at least one matching config;
\* a missing or unknown filter is answered 400 before any lookup, an empty
\* config set 404 (a failed lookup 500), and then no campaign is processed
\* and no remote list call is made.
C24_RunOnlyAfterValidation ==
  /\ pc = "scheduled" =>
       /\ rt.status = 200
       /\ rt.daysFilter \in { "today", "t+1", "t+2", "t+3", "all" }
       /\ rt.modeFilter \in { "BAU", "re-engagement", "re-activation" }
       /\ rt.count >= 1
  /\ run # runIdle => (rt.status = 200 /\ run.total = rt.count /\ rt.count >= 1)
  /\ rt.status \in { 400, 404, 500 } => (pc = "idle" /\ NothingProcessed)
  /\ (rt.status = 0 /\ pc \in { "idle", "find" }) => NothingProcessed
  /\ rt.status = 400 =>
       /\ rt.finds = 0
       /\ \/ rt.daysFilter \notin { "today", "t+1", "t+2", "t+3", "all" }
          \/ rt.modeFilter \notin { "BAU", "re-engagement", "re-activation" }
  /\ (pc = "idle" /\ rt.status = 0) => rt = rtIdle

\* a request without a date filter was refused before the lookup
C24_Witness ==
  /\ rt.status = 400
  /\ rt.daysFilter = ""
  /\ rt.modeFilter = "BAU"
  /\ pc = "idle"


\* the list object of a create response holds no listId
NoPrimaryId(res) ==
  /\ res.status = "ok"
  /\ ~(IF res.hasList THEN res.list ELSE res.root).hasId

\* C25: when the answer of the list-create call holds no listId in its list
\* object (the body or its `list` field), createHubSpotList raises without
\* asking for the legacy id; the campaign is recorded as rejected, no
\* CreatedList document is stored for it and no membership add or property
\* update was sent.
C25_NoIdRaisesBeforeLookup ==
  (cr.caller = "campaign" /\ cr.res # NoResponse /\ NoPrimaryId(cr.res)) =>
     /\ cr.outcome = "raised"
     /\ cr.searches = 0
     /\ cr.listId = 0
     /\ Len(run.results) = Len(run.started)
     /\ run.results[Len(run.results)].status = "rejected"
     /\ run.results[Len(run.results)].reason = "createHubSpotList"
     /\ Len(createdLists) = countStatus(run.results, "fulfilled")
     /\ wr = wrIdle
     /\ up = upIdle

\* the second campaign of a run was rejected on a response whose `list`
\* object holds no id while the body does, after the first was stored
C25_Witness ==
  /\ cr.caller = "campaign"
  /\ cr.outcome = "raised"
  /\ cr.res.status = "ok"
  /\ cr.res.hasList
  /\ ~cr.res.list.hasId
  /\ cr.res.root.hasId
  /\ Len(run.results) = 2
  /\ run.results[1].status = "fulfilled"
  /\ run.results[2].status = "rejected"
  /\ Len(createdLists) = 1


\* the search failed, found no list, or found a list without the legacy id
LookupMissed(sres) ==
  \/ sres.status = "error"
  \/ sres.status = "ok" /\ (sres.lists = 0 \/ ~sres.hasProperty)

\* the states of a campaign after createHubSpotList returned
AfterCreate == { "add", "addDone", "update", "persist" }

\* C26: the legacy id is looked up on a best-effort basis: when the search
\* fails, finds no list or finds a list without hs_classic_list_id,
\* getLegacySegmentId returns null and does not raise, createHubSpotList
\* returns the created list with a null legacyListId, and the campaign goes
\* on to its writes and its record; no campaign is rejected after a lookup.
C26_LegacyLookupBestEffort ==
  /\ \A sres \in SearchResponses :
       LookupMissed(sres) =>
         /\ onSearchAnswered(callLegacy(100), sres).outcome = "returned"
         /\ onSearchAnswered(callLegacy(100), sres).legacyListId = 0
  /\ (pc \in AfterCreate /\ LookupMissed(cp.legacyLookup)) =>
       /\ cp.legacyListId = 0
       /\ cp.newList = 99 + run.listsCreated
       /\ Len(run.results) = Len(run.started) - 1
  /\ (pc \in AfterCreate /\ ~LookupMissed(cp.legacyLookup)) =>
       cp.legacyListId = 1000 + cp.newList
  /\ (cr.caller = "campaign" /\ cr.outcome = "raised") => cr.searches = 0
  /\ \A i \in 1..Len(run.results) :
       run.results[i].status = "rejected" =>
          run.results[i].reason \in { "createHubSpotList", "CreatedList.create" }

\* a campaign whose legacy lookup failed has added its selection to the new
\* list and is about to store its record
C26_Witness ==
  /\ pc = "persist"
  /\ cp.legacyLookup.status = "error"
  /\ cp.legacyListId = 0
  /\ cp.newList # 0
  /\ cp.actualContactsAdded > 0


\* the place of a remote operation in a campaign
opRank(op) ==
  CASE op = "read" -> 1
    [] op = "create" -> 2
    [] op = "lookup" -> 3
    [] op = "send" -> 4
    [] op = "new" -> 5
    [] op = "update" -> 6

opsOf(c, op) == Len(SelectSeq(c.ops, LAMBDA o : o = op))

\* C30: in a campaign the remote operations come in one order: the reads of
\* the source lists, the creation of the list, then, only for a non-empty
\* selection, the add to the send list (when one is configured), the add to
\* the new list and the property updates, and last the CreatedList record;
\* no add comes before the creation and neither add asks for the list's
\* processing type.
C30_OperationsInFixedOrder ==
  /\ \A i \in 1..Len(cp.ops) : \A j \in 1..Len(cp.ops) :
       i < j => /\ opRank(cp.ops[i]) <= opRank(cp.ops[j])
                /\ opRank(cp.ops[i]) = opRank(cp.ops[j]) => cp.ops[i] = "read"
  /\ (opsOf(cp, "send") + opsOf(cp, "new") + opsOf(cp, "update") > 0) =>
       /\ cp.selectedContacts # << >>
       /\ opsOf(cp, "create") = 1
       /\ opsOf(cp, "lookup") = 1
       /\ cp.newList # 0
  /\ opsOf(cp, "send") = 1 => cp.config.sendContactListId # Null
  /\ (opsOf(cp, "new") = 1 /\ cp.config.sendContactListId # Null) => opsOf(cp, "send") = 1
  /\ opsOf(cp, "update") = 1 => opsOf(cp, "new") = 1
  /\ pc = "persist" =>
       /\ opsOf(cp, "create") = 1
       /\ cp.selectedContacts = << >> => cp.ops[Len(cp.ops)] = "lookup"
  /\ wr.caller \in { "send", "new" } =>
       /\ wr.verifies = 0
       /\ wr.outcome # "verifying"
       /\ cp.ops[Len(cp.ops)] = wr.caller
  /\ (up.caller = "campaign" /\ pc = "update") => cp.ops[Len(cp.ops)] = "update"

\* a campaign that read both source lists, created its list, added its
\* selection to the send list and to the new list and updated the contacts
\* is about to store its record
C30_Witness ==
  /\ pc = "persist"
  /\ cp.ops = <<"read", "read", "create", "lookup", "send", "new", "update">>
  /\ cp.actualContactsAdded > 0


\* the ids the invocation in frame f selected, up to its n-th campaign
ownSelected(f, n) == UNION { Range(f.selections[k]) : k \in 1..n }

\* C27: the dedup set belongs to one invocation of processCampaignsWithDelay:
\* it is empty when the invocation starts and it holds the ids that
\* invocation selected and no others, so that the filter of a campaign
\* removes what its own invocation selected before and nothing that an
\* invocation in progress at the same time, or an earlier one, selected.
C27_DedupSetScopedToRun ==
  \A r \in Runs :
    LET f == inv[r]
    IN /\ f.usedContacts = ownSelected(f, Len(f.selections))
       /\ (f.pc = "loop" /\ f.index = 0) => f.usedContacts = {}
       /\ f.pc = "writing" =>
            f.lastKept = filterUsed(f.lastRead, ownSelected(f, Len(f.selections) - 1))

\* two invocations are in the middle of a campaign, one of them the second
\* invocation of its slot, and both have just selected contact 1 while the
\* other had it in its set
C27_Witness ==
  /\ inv[1].pc = "writing"
  /\ inv[2].pc = "writing"
  /\ inv[1].invocations = 2
  /\ 1 \in Range(inv[1].selections[Len(inv[1].selections)])
  /\ 1 \in Range(inv[2].selections[Len(inv[2].selections)])
  /\ 1 \in inv[1].usedContacts \cap inv[2].usedContacts


\* C34: the selection of a campaign holds no contact id twice, also when a
\* contact is a member of both the primary and the secondary list, so that
\* the selected count is the number of distinct contacts selected.
C34_SelectionHasNoDuplicate ==
  \A i \in 1..Len(run.selections) :
     /\ NoDuplicates(run.selections[i])
     /\ Len(run.selections[i]) = Cardinality(Range(run.selections[i]))


\* C35: a campaign that is recorded as rejected leaves the dedup set as it
\* found it: when the run is over every id of the set is in the selection
\* of a campaign that was fulfilled.
C35_RejectedCampaignLeavesSetAlone ==
  pc = "runDone" =>
     usedContacts \subseteq UNION { Range(run.selections[i]) : i \in Fulfilled }


\* C37: in a campaign the contact properties are updated only for contacts
\* that were added to the new list: the contacts of an add batch that used
\* up its retries are in no update batch.
C37_UpdatesOnlyAddedContacts ==
  up.caller = "campaign" =>
     Len(Concat(up.sent)) <= cp.actualContactsAdded


\* C36: a call of getContactsFromList with a finite maxCount returns or
\* raises after finitely many requests whatever the endpoint answers, also
\* when pages carry a cursor and no results and when failures alternate with
\* pages.
C36_ReaderTerminates ==
  (pc = "read") ~> (pc = "readDone")


\* C31: the automatic cleanup (the run of the start-up timer and the run of
\* 02:00) starts at most once per calendar day, however the ticks of the
\* scheduler and the start-up timers interleave; a cleanup that failed
\* still is the run of its day.
C31_OneCleanupPerDay ==
  /\ \A d \in Days : cl.starts[d] <= 1
  /\ \A d \in cl.failed : cl.starts[d] = 1
  /\ cl.day \in cl.failed => ~shouldRunCleanup(cl) /\ cl.lastCleanupDate = cl.day
  /\ \A d \in Days : cl.starts[d] = 1 => cl.lastCleanupDate >= d

\* the cleanup of the day was started by the start-up timer and failed, and
\* a tick of 02:00 on the same day started no second one
C31_Witness ==
  /\ cl.day \in cl.failed
  /\ cl.day \in cl.declined
  /\ isScheduledTime(cl)
  /\ cl.schedulerInterval
  /\ cl.starts[cl.day] = 1

\* C38: after stopAutoCleanup returned no automatic cleanup starts until
\* initializeAutoCleanup is called again, also when the stop comes within
\* the 5 seconds of the start-up timer; and initializeAutoCleanup called
\* while the scheduler runs creates no second interval and no second timer.
C38_StopStopsEverything ==
  /\ ~cl.startedWhileStopped
  /\ cl.intervals <= 1
  /\ cl.lastInit.wasRunning => cl.lastInit.newIntervals = 0 /\ cl.lastInit.newTimers = 0


\* C32: login tracking never breaks the login: a request with valid
\* credentials sets the session user and is redirected also when the
\* login-activity store fails during the request (in the suspicious-activity
\* check or in the logging of the attempt); the session user is never set
\* for invalid credentials.
C32_TrackingNeverBreaksLogin ==
  lg.pc = "done" =>
     IF credentialsValid(lg.email, lg.password)
     THEN lg.sessionUser = lg.email /\ lg.response = "redirect"
     ELSE lg.sessionUser = Undefined /\ lg.response = "render"


\* the answers that report success (success: true)
emSuccess == { "alreadyIncluded", "added" }

\* C33: the recipient-list PATCH is sent only for an email that was seen in
\* state DRAFT and did not include the list; success is reported only when
\* the list was already included or when one of at most 3 reads after the
\* PATCH shows it in the include list; every other answer is a failure.
C33_PatchOnlyDraftAndVerified ==
  /\ em.patches > 0 =>
       /\ em.patches = 1
       /\ em.observed.status = "ok"
       /\ em.observed.state = "DRAFT"
       /\ ~includesList(em.observed.include, em.legacyListId)
  /\ em.verifyReads <= maxRetries
  /\ em.response = "alreadyIncluded" =>
       em.patches = 0 /\ includesList(em.observed.include, em.legacyListId)
  /\ em.response = "added" =>
       /\ em.patches = 1
       /\ em.verifyReads \in 1..maxRetries
       /\ includesList(em.verified.include, em.legacyListId)
  /\ em.pc = "done" => em.response \in emSuccess \cup { "notDraft", "notAdded", "error" }

\* C40: an unresolved legacy id is never written into the recipient lists of
\* an email: when the lookup returned null no PATCH is sent.
C40_NoPatchWithoutLegacyId ==
  (em.looked /\ em.legacyListId = 0) =>
     /\ em.patches = 0
     /\ "null" \notin em.payload


\* the lists of the collection, in the order of the find
allOfThem(f) == [ i \in 1..Len(f.lists) |-> i ]

\* the counts add up and the writes are those of the lists counted as fixed
fxAccounts(f) ==
  /\ f.totalProcessed = f.totalFixed + f.totalAlreadyCorrect + f.totalErrors
  /\ f.written = f.fixedLists
  /\ Len(f.fixedLists) = f.totalFixed

====
